---- MODULE Spec2Model ----
(***************************************************************************)
(* FastLoop loop execution engine: the Redis-backed state manager          *)
(* (fastloop/state/state_redis.py), the POST /{loop_name} dispatcher      *)
(* (fastloop/fastloop.py) and the handler-facing LoopContext               *)
(* (fastloop/context.py).                                                  *)
(*                                                                         *)
(* Every `await self.rdb.<command>` is one atomic step of the worker that  *)
(* issues it; workers interleave between awaits.  Redis lists are kept     *)
(* head (left) first, as LRANGE 0 -1 reads them.                           *)
(***************************************************************************)
EXTENDS Integers, Sequences, FiniteSets, TLC

\* ------------------------------------------------------------------ bounds
NumWorkers == 2
NumLoopIds == 1
MaxPosts == 2
MaxEmits == 3
MaxTime == 1
MaxTimeout == 2
MaxWaitTime == 2
MaxIdleTimeout == 1
MaxSweepTime == 2
MaxPathLen == 3
MaxSubs == 2
MaxIntervals == 2
MaxChunks == 3

\* ------------------------------------------------------- program constants
LOCK_TIMEOUT_S == 60
EVENT_POLL_INTERVAL_S == 1
LOCK_BLOCKING_TIMEOUT_S == 5
DEFAULT_IDLE_TIMEOUT_S == 60
ROUTE_IDLE_TIMEOUT_S == 60
WATCHDOG_INTERVAL_S == 5

Workers == 1..NumWorkers
LoopIds == 1..NumLoopIds
NoId == 0
NoToken == 0

LoopName == "pr-review"
NoName == "none"
StartEventKey == "pr_opened"
RegisteredTypes == {"pr_opened", "changes_approved"}
NoType == "none"
RequestTypes == {NoType, "bogus"} \cup RegisteredTypes
Senders == {"client", "server"}

Queues == LoopIds \X RegisteredTypes \X Senders

\* ------------------------------------------------------------------ state
VARIABLES
    state,      \* fastloop:state:{loop_id}      loop record (JSON) or absent
    index,      \* fastloop:index                set of loop ids
    queue,      \* fastloop:events:{loop_id}:{type}:{server|client}  lists
    history,    \* fastloop:event_history:{loop_id}                  list
    claim,      \* fastloop:claim:{loop_id}      lock value and expiry
    nonceCtr,   \* per-loop nonce counter
    now,        \* wall clock, whole seconds
    pc,         \* position of each worker
    loc,        \* locals of each worker's request / invocation
    nextEid,    \* identity (payload) of the next client event accepted
    pushed,     \* per queue: events in the order LPUSH put them on the queue
    popped,     \* per queue: events in the order pop_event returned them
    appended,   \* per loop: events in the order LPUSH put them on the history
    acked,      \* events whose push_event has returned
    pushedAt,   \* per queue: the time of each LPUSH, in the order of `pushed`
    mon,        \* the LoopMonitor task: its position and the locals of run()
    context,    \* fastloop:context:{loop_id}:{key}  pickled value or absent
    http,       \* a GET request to the app: its path and the endpoint it reached
    lost,       \* events a handler had popped when its process was killed
    stt         \* the DeepgramSpeechToTextManager of a conversation

storeVars == <<state, index, queue, history, claim, nonceCtr>>
ghostVars == <<pushed, popped, appended, acked, pushedAt>>
auxVars == <<context, http, lost, stt>>
vars == <<state, index, queue, history, claim, nonceCtr, now, pc, loc,
          nextEid, pushed, popped, appended, acked, pushedAt, mon,
          context, http, lost, stt>>

\* --------------------------------------------------------------- records
\* LoopState(loop_id, loop_name, idle_timeout, last_event_at); a new record
\* has the default status.
DefaultStatus == "RUNNING"

NoLoop ==
    [loop_id |-> NoId, loop_name |-> NoName, status |-> "ABSENT",
     idle_timeout |-> 0, last_event_at |-> 0]

NewLoopState(lid, name, idle, t) ==
    [loop_id |-> lid, loop_name |-> name, status |-> DefaultStatus,
     idle_timeout |-> idle, last_event_at |-> t]

\* The stored value is taken for missing whatever it is.
Exists_Never(rec) == FALSE

Exists(rec) == rec.status # "ABSENT"

NoEvent == [eid |-> 0, type |-> NoType, loop_id |-> NoId, sender |-> "client", nonce |-> 0]

NoClaim == [token |-> NoToken, expires |-> 0]

NoRequest == [type |-> NoType, valid |-> FALSE, loop_id |-> NoId, sender |-> "client", nonce |-> 0]

\* Request bodies: `valid` tells whether the payload parses against the schema
\* of a registered type.  These bodies leave `sender` and `nonce` to the
\* defaults of the event schema.
Requests ==
    {r \in [type : RequestTypes, valid : BOOLEAN, loop_id : {NoId} \cup LoopIds,
            sender : {"client"}, nonce : {0}] :
        r.type \notin RegisteredTypes => ~r.valid}

\* Request bodies that also carry the `sender` and `nonce` fields of the event
\* schema.
BodyRequests ==
    {r \in [type : RegisteredTypes, valid : {TRUE}, loop_id : {NoId} \cup LoopIds,
            sender : Senders, nonce : {0, MaxEmits}] : TRUE}

\* Context keys a handler uses.  "initial_event" is also the name of a field
\* LoopContext.__init__ assigns on every context.
Keys == {"draft", "initial_event"}

NoKey == "none"

\* Python's None, and the values a handler stores besides it.
None == "None"

Values == {"v1", "v2"}

\* No attribute of that name on the object.
Missing == "missing"

\* self.initial_event of a context the dispatcher builds: the LoopEvent object.
InitialEvent == "LoopEvent"

\* A context key of the store: absent, or the bytes cloudpickle.dumps gave.
NoValue == [set |-> FALSE, pickle |-> None]

\* cloudpickle.dumps(value) / cloudpickle.loads(value_str)
Dumps(v) == [set |-> TRUE, pickle |-> v]

Loads(b) == b.pickle

\* A context operation (set / get / delete) and its arguments.
NoOp == [name |-> "none", key |-> NoKey, value |-> None, local |-> FALSE]

\* A GET request to the app that has not arrived.
NoHttp == [path |-> <<>>, endpoint |-> "none"]

\* LoopContext.__init__: the flags, and the attributes reachable by a key.
NewContext ==
    [stop |-> FALSE, pause |-> FALSE, event_this_cycle |-> FALSE,
     attrs |-> [k \in Keys |-> IF k = "initial_event" THEN InitialEvent ELSE Missing]]

IdleLocals ==
    [req |-> NoRequest,     \* the request body
     ev |-> NoEvent,        \* `event` of _route_handler / emit
     lid |-> NoId,          \* loop_id argument of the store call in progress
     fresh |-> FALSE,       \* lid is a uuid no response has carried yet
     loop |-> NoLoop,       \* `loop` local of get_or_create_loop / push_event / with_claim
     ret |-> "none",        \* caller of the store call in progress
     ctx |-> NewContext,    \* the LoopContext of this request
     pret |-> "none",       \* caller of the push_event in progress
     deadline |-> 0,        \* stop_trying_at of lock.acquire
     resp |-> "none",       \* outcome of the request
     wt |-> NoType,         \* wait_for: `event`, the type waited for
     timeout |-> 0,         \* wait_for: `timeout`
     raises |-> FALSE,      \* wait_for: `raise_on_timeout`
     start |-> 0,           \* wait_for: `start`
     wake |-> 0,            \* wait_for: end of the notification wait in progress
     wres |-> "none",       \* wait_for: how the call ended
     got |-> NoEvent,       \* wait_for: `event_result` of the last pop
     subs |-> 0,            \* wait_for: subscriptions of this context that are open
     kop |-> NoOp,          \* set / get / delete: the call in progress or just ended
     kres |-> "none"]       \* set / get / delete: what the call returned or raised

\* LoopMonitor between two sweeps: nothing read yet.
MonitorIdle ==
    [pc |-> "sleep",        \* position in run()
     todo |-> {},           \* loop ids of the index still to be read
     loops |-> {},          \* `loops`: the RUNNING records get_all_loops returned
     idle |-> {},           \* ids for which the idle condition held in the last sweep
     at |-> 0,              \* int(datetime.now().timestamp()) of the last sweep
     stop |-> FALSE,        \* _stop_event is set
     cancelled |-> FALSE]   \* the task has been cancelled

\* ---------------------------------------------------------- Redis lists
\* RPUSH in place of LPUSH: the value goes to the tail.
LPush_Tail(list, v) == Append(list, v)

\* LPUSH key value
LPush(list, v) == <<v>> \o list

\* RPOP key: the value removed (the tail) and the list left
RPopValue(list) == list[Len(list)]

RPopRest(list) == SubSeq(list, 1, Len(list) - 1)

\* LRANGE key 1 -1 in place of 0 -1: the head is left out.
LRangeFromOne(list) == SubSeq(list, 2, Len(list))

\* LRANGE key 0 -1
LRangeAll(list) == SubSeq(list, 1, Len(list))

\* get_event_history(loop_id)
get_event_history(l) == LRangeAll(history[l])

\* DeepgramSpeechToTextManager.__init__: the buffer is empty and process_audio
\* is not running.  `audio` is the local of process_audio; `next` numbers the
\* chunks in the order send_audio is called with them, `accepted` lists the
\* chunks send_audio appended and `sent` the chunks dg_connection.send took.
NewSttManager ==
    [is_running |-> FALSE, buffer |-> <<>>, pc |-> "off", audio |-> <<>>,
     next |-> 1, accepted |-> <<>>, sent |-> <<>>]

\* ------------------------------------------------------------------ Init
Init ==
    /\ state = [l \in LoopIds |-> NoLoop]
    /\ index = {}
    /\ queue = [q \in Queues |-> <<>>]
    /\ history = [l \in LoopIds |-> <<>>]
    /\ claim = [l \in LoopIds |-> NoClaim]
    /\ nonceCtr = [l \in LoopIds |-> 0]
    /\ now = 0
    /\ pc = [w \in Workers |-> "idle"]
    /\ loc = [w \in Workers |-> IdleLocals]
    /\ nextEid = 1
    /\ pushed = [q \in Queues |-> <<>>]
    /\ popped = [q \in Queues |-> <<>>]
    /\ appended = [l \in LoopIds |-> <<>>]
    /\ acked = {}
    /\ pushedAt = [q \in Queues |-> <<>>]
    /\ mon = MonitorIdle
    /\ context = [l \in LoopIds |-> [k \in Keys |-> NoValue]]
    /\ http = NoHttp
    /\ lost = {}
    /\ stt = NewSttManager

\* ------------------------------------------------------------ dispatcher
\* The loop ids a client can send: any string but a uuid that was generated
\* for a request still being processed.
KnownIds == {l \in LoopIds : \A w \in Workers : ~(loc[w].fresh /\ loc[w].lid = l)}

\* uuid.uuid4(): an id nothing in the system refers to yet.
FreshIds ==
    {l \in LoopIds :
        /\ ~Exists(state[l])
        /\ l \notin index
        /\ history[l] = <<>>
        /\ \A q \in Queues : q[1] = l => pushed[q] = <<>>
        /\ \A w \in Workers : loc[w].lid # l}

\* The checks on the request body without the start-event check.
Validate_NoStartCheck(r) ==
    IF r.type = NoType THEN "400:type_required"
    ELSE IF r.type \notin RegisteredTypes THEN "400:unknown_type"
    ELSE IF ~r.valid THEN "400:invalid_data"
    ELSE "ok"

\* _route_handler up to its first await: the checks on the request body.
Validate(r) ==
    IF r.type = NoType THEN "400:type_required"
    ELSE IF r.type \notin RegisteredTypes THEN "400:unknown_type"
    ELSE IF ~r.valid THEN "400:invalid_data"
    ELSE IF r.loop_id = NoId /\ r.type # StartEventKey THEN "400:expected_start"
    ELSE "ok"

\* event_model.model_validate(request)
ValidatedEvent(r, eid) ==
    [eid |-> eid, type |-> r.type, loop_id |-> r.loop_id, sender |-> r.sender, nonce |-> r.nonce]

Post(w, r) ==
    /\ pc[w] = "idle"
    /\ IF Validate(r) # "ok"
       THEN /\ pc' = [pc EXCEPT ![w] = "done"]
            /\ loc' = [loc EXCEPT ![w] = [IdleLocals EXCEPT !.req = r, !.resp = Validate(r)]]
            /\ UNCHANGED nextEid
       ELSE /\ nextEid <= MaxPosts
            /\ r.loop_id = NoId => FreshIds # {}
            /\ r.loop_id # NoId => r.loop_id \in KnownIds
            /\ pc' = [pc EXCEPT ![w] = "goc_get"]
            /\ loc' = [loc EXCEPT ![w] =
                          [IdleLocals EXCEPT !.req = r, !.ev = ValidatedEvent(r, nextEid),
                                             !.lid = r.loop_id, !.ret = "route"]]
            /\ nextEid' = nextEid + 1
    /\ UNCHANGED <<storeVars, now, ghostVars, mon, auxVars>>

\* _route_handler without the check for a stopped loop.
RouteResolved_NoStoppedCheck(L, rec, isNew) ==
    [pc |-> "push_queue",
     loc |-> [L EXCEPT !.loop = NoLoop, !.lid = rec.loop_id,
                       !.ev = [L.ev EXCEPT !.loop_id = rec.loop_id],
                       !.ctx = NewContext, !.pret = "route"]]

\* _route_handler after get_or_create_loop has returned (loop, created).
RouteResolved(L, rec, isNew) ==
    IF rec.status = "STOPPED"
    THEN [pc |-> "done", loc |-> [IdleLocals EXCEPT !.resp = "400:stopped"]]
    ELSE [pc |-> "push_queue",
          loc |-> [L EXCEPT !.loop = NoLoop, !.lid = rec.loop_id,
                            !.ev = [L.ev EXCEPT !.loop_id = rec.loop_id],
                            !.ctx = NewContext, !.pret = "route"]]

\* push_event after get_or_create_loop has returned: loop.last_event_at = now.
PushResolved(L, rec, t) ==
    [pc |-> "push_update", loc |-> [L EXCEPT !.loop = [rec EXCEPT !.last_event_at = t]]]

GocReturn(w, L, rec, isNew) ==
    LET r == IF L.ret = "route" THEN RouteResolved(L, rec, isNew)
             ELSE PushResolved(L, rec, now)
    IN /\ pc' = [pc EXCEPT ![w] = r.pc]
       /\ loc' = [loc EXCEPT ![w] = r.loc]

\* ---------------------------------------------------- get_or_create_loop
GocName(L) == IF L.ret = "route" THEN LoopName ELSE NoName

GocIdleTimeout(L) == IF L.ret = "route" THEN ROUTE_IDLE_TIMEOUT_S ELSE DEFAULT_IDLE_TIMEOUT_S

GocGet(w) ==
    /\ pc[w] = "goc_get"
    /\ \E lid \in LoopIds :
        /\ IF loc[w].lid = NoId THEN lid \in FreshIds ELSE lid = loc[w].lid
        /\ LET L == [loc[w] EXCEPT !.lid = lid, !.req = NoRequest,
                                   !.fresh = @ \/ loc[w].lid = NoId] IN
           IF Exists(state[lid])
           THEN GocReturn(w, L, state[lid], FALSE)
           ELSE /\ pc' = [pc EXCEPT ![w] = "goc_set"]
                /\ loc' = [loc EXCEPT ![w] =
                              [L EXCEPT !.loop = NewLoopState(lid, GocName(L), GocIdleTimeout(L), now)]]
    /\ UNCHANGED <<storeVars, now, nextEid, ghostVars, mon, auxVars>>

GocSet(w) ==
    /\ pc[w] = "goc_set"
    /\ state' = [state EXCEPT ![loc[w].lid] = loc[w].loop]
    /\ pc' = [pc EXCEPT ![w] = "goc_sadd"]
    /\ UNCHANGED <<index, queue, history, claim, nonceCtr, now, loc, nextEid, ghostVars, mon, auxVars>>

GocSadd(w) ==
    /\ pc[w] = "goc_sadd"
    /\ index' = index \cup {loc[w].lid}
    /\ GocReturn(w, loc[w], loc[w].loop, TRUE)
    /\ UNCHANGED <<state, queue, history, claim, nonceCtr, now, nextEid, ghostVars, mon, auxVars>>

\* ------------------------------------------------------------ push_event
QueueKey(lid, ev) == <<lid, ev.type, ev.sender>>

PushQueue(w) ==
    /\ pc[w] = "push_queue"
    /\ LET q == QueueKey(loc[w].lid, loc[w].ev) IN
        /\ queue' = [queue EXCEPT ![q] = LPush(@, loc[w].ev)]
        /\ pushed' = [pushed EXCEPT ![q] = Append(@, loc[w].ev)]
        /\ pushedAt' = [pushedAt EXCEPT ![q] = Append(@, now)]
    /\ pc' = [pc EXCEPT ![w] = "push_history"]
    /\ UNCHANGED <<state, index, history, claim, nonceCtr, now, loc, nextEid, popped, appended, acked, mon, auxVars>>

PushHistory(w) ==
    /\ pc[w] = "push_history"
    /\ history' = [history EXCEPT ![loc[w].lid] = LPush(@, loc[w].ev)]
    /\ appended' = [appended EXCEPT ![loc[w].lid] = Append(@, loc[w].ev)]
    /\ pc' = [pc EXCEPT ![w] = "goc_get"]
    /\ loc' = [loc EXCEPT ![w] = [@ EXCEPT !.ret = "push"]]
    /\ UNCHANGED <<state, index, queue, claim, nonceCtr, now, nextEid, pushed, popped, acked, pushedAt, mon, auxVars>>

\* update_loop(loop_id, loop), then push_event returns to its caller:
\* _route_handler, which still has its `event`, goes on to LoopManager.start;
\* emit returns to the handler.
PushUpdate(w) ==
    /\ pc[w] = "push_update"
    /\ state' = [state EXCEPT ![loc[w].lid] = loc[w].loop]
    /\ acked' = acked \cup {loc[w].ev}
    /\ pc' = [pc EXCEPT ![w] = IF loc[w].pret = "route" THEN "acquire" ELSE "handler"]
    /\ loc' = [loc EXCEPT ![w] =
                  [@ EXCEPT !.ev = IF loc[w].pret = "route" THEN @ ELSE NoEvent,
                            !.loop = NoLoop, !.fresh = FALSE,
                            !.ret = "none", !.pret = "none",
                            !.deadline = IF loc[w].pret = "route"
                                         THEN now + LOCK_BLOCKING_TIMEOUT_S ELSE 0]]
    /\ UNCHANGED <<index, queue, history, claim, nonceCtr, now, nextEid, pushed, popped, appended, pushedAt, mon, auxVars>>

\* ------------------------------------------------------------ with_claim
\* A lock key is live until it is released or its TTL runs out.
Held(l) == claim[l].token # NoToken

\* lock.acquire(): SET NX PX succeeds on a free key; a taken key is retried
\* until stop_trying_at, after which with_claim raises LoopClaimError out of
\* start and _route_handler. Inside the scope the event is the context's
\* initial_event.
Acquire(w) ==
    /\ pc[w] = "acquire"
    /\ IF ~Held(loc[w].lid)
       THEN /\ claim' = [claim EXCEPT ![loc[w].lid] =
                            [token |-> w, expires |-> now + LOCK_TIMEOUT_S]]
            /\ pc' = [pc EXCEPT ![w] = "claim_get"]
            /\ loc' = [loc EXCEPT ![w] = [@ EXCEPT !.deadline = 0, !.ev = NoEvent]]
       ELSE /\ now >= loc[w].deadline
            /\ pc' = [pc EXCEPT ![w] = "done"]
            /\ loc' = [loc EXCEPT ![w] =
                          [IdleLocals EXCEPT !.resp = "LoopClaimError", !.ev = loc[w].ev]]
            /\ UNCHANGED claim
    /\ UNCHANGED <<state, index, queue, history, nonceCtr, now, nextEid, ghostVars, mon, auxVars>>

\* loop_str = await self.rdb.get(...); without a record the body is entered.
ClaimGet(w) ==
    /\ pc[w] = "claim_get"
    /\ IF Exists(state[loc[w].lid])
       THEN /\ pc' = [pc EXCEPT ![w] = "claim_set"]
            /\ loc' = [loc EXCEPT ![w] = [@ EXCEPT !.loop = state[loc[w].lid]]]
       ELSE /\ pc' = [pc EXCEPT ![w] = "handler"]
            /\ UNCHANGED loc
    /\ UNCHANGED <<storeVars, now, nextEid, ghostVars, mon, auxVars>>

\* await self.rdb.set(..., loop.to_json()); then yield.
ClaimSet(w) ==
    /\ pc[w] = "claim_set"
    /\ state' = [state EXCEPT ![loc[w].lid] = loc[w].loop]
    /\ pc' = [pc EXCEPT ![w] = "handler"]
    /\ loc' = [loc EXCEPT ![w] = [@ EXCEPT !.loop = NoLoop]]
    /\ UNCHANGED <<index, queue, history, claim, nonceCtr, now, nextEid, ghostVars, mon, auxVars>>

\* The store raises on the GET or the SET of with_claim's entry: the error
\* leaves the try block through its finally.
ClaimGetFails(w) ==
    /\ pc[w] = "claim_get"
    /\ pc' = [pc EXCEPT ![w] = "release"]
    /\ loc' = [loc EXCEPT ![w] = [@ EXCEPT !.resp = "RedisError"]]
    /\ UNCHANGED <<storeVars, now, nextEid, ghostVars, mon, auxVars>>

ClaimSetFails(w) ==
    /\ pc[w] = "claim_set"
    /\ pc' = [pc EXCEPT ![w] = "release"]
    /\ loc' = [loc EXCEPT ![w] = [@ EXCEPT !.loop = NoLoop, !.resp = "RedisError"]]
    /\ UNCHANGED <<storeVars, now, nextEid, ghostVars, mon, auxVars>>

\* What leaves the scope: the error of lock.release(), else the error that
\* ended the try block, else the result.
ScopeOutcome(owned, err) ==
    IF ~owned THEN "LockNotOwnedError" ELSE IF err # "none" THEN err ELSE "200"

\* The scope is left with the lock key as it is.
Release_KeepsKey(w) ==
    /\ pc[w] = "release"
    /\ pc' = [pc EXCEPT ![w] = "done"]
    /\ loc' = [loc EXCEPT ![w] =
                  [IdleLocals EXCEPT !.resp = ScopeOutcome(claim[loc[w].lid].token = w,
                                                           loc[w].resp)]]
    /\ UNCHANGED <<storeVars, now, nextEid, ghostVars, mon, auxVars>>

\* lock.release(): deletes the key only if it still holds this lock's token,
\* and raises LockNotOwnedError otherwise.
Release(w) ==
    /\ pc[w] = "release"
    /\ claim' = [claim EXCEPT ![loc[w].lid] = IF @.token = w THEN NoClaim ELSE @]
    /\ pc' = [pc EXCEPT ![w] = "done"]
    /\ loc' = [loc EXCEPT ![w] =
                  [IdleLocals EXCEPT !.resp = ScopeOutcome(claim[loc[w].lid].token = w,
                                                           loc[w].resp)]]
    /\ UNCHANGED <<state, index, queue, history, nonceCtr, now, nextEid, ghostVars, mon, auxVars>>

\* ------------------------------------------------------ handler (user code)
\* LoopContext.stop / LoopContext.pause
HandlerStop(w) ==
    /\ pc[w] = "handler"
    /\ ~loc[w].ctx.stop
    /\ loc' = [loc EXCEPT ![w] = [@ EXCEPT !.ctx = [@ EXCEPT !.stop = TRUE]]]
    /\ UNCHANGED <<storeVars, now, pc, nextEid, ghostVars, mon, auxVars>>

HandlerPause(w) ==
    /\ pc[w] = "handler"
    /\ ~loc[w].ctx.pause
    /\ loc' = [loc EXCEPT ![w] = [@ EXCEPT !.ctx = [@ EXCEPT !.pause = TRUE]]]
    /\ UNCHANGED <<storeVars, now, pc, nextEid, ghostVars, mon, auxVars>>

\* pop_event(loop_id, event, sender): RPOP of the queue, null on an empty one.
PopResult(list) == IF list = <<>> THEN NoEvent ELSE RPopValue(list)

\* A read of the tail that leaves the list as it is.
PopRest_Keeps(list) == list

PopRest(list) == IF list = <<>> THEN list ELSE RPopRest(list)

\* The pass of wait_for with pop_event called for sender SERVER.
WaitFor_ServerQueue(w, t) ==
    /\ pc[w] = "handler"
    /\ ~loc[w].ctx.stop
    /\ LET q == <<loc[w].lid, t, "server">> IN
       IF loc[w].ctx.pause
       THEN /\ pc' = [pc EXCEPT ![w] = "finish"]
            /\ UNCHANGED <<loc, queue, popped>>
       ELSE /\ queue' = [queue EXCEPT ![q] = PopRest(@)]
            /\ popped' = [popped EXCEPT ![q] =
                             IF PopResult(queue[q]) = NoEvent THEN @
                             ELSE Append(@, PopResult(queue[q]))]
            /\ loc' = [loc EXCEPT ![w] =
                          [@ EXCEPT !.ctx = [@ EXCEPT !.event_this_cycle =
                                                @ \/ PopResult(queue[q]) # NoEvent]]]
            /\ UNCHANGED pc
    /\ UNCHANGED <<state, index, history, claim, nonceCtr, now, nextEid, pushed, appended, acked, pushedAt, mon, auxVars>>

\* One pass of wait_for's loop for event type t, with a stop or pause request
\* seen at its checks: a stop request ends the loop, a pause request raises
\* LoopPausedError out of the handler, otherwise the client queue is popped.
WaitFor(w, t) ==
    /\ pc[w] = "handler"
    /\ ~loc[w].ctx.stop
    /\ LET q == <<loc[w].lid, t, "client">> IN
       IF loc[w].ctx.pause
       THEN /\ pc' = [pc EXCEPT ![w] = "finish"]
            /\ UNCHANGED <<loc, queue, popped>>
       ELSE /\ queue' = [queue EXCEPT ![q] = PopRest(@)]
            /\ popped' = [popped EXCEPT ![q] =
                             IF PopResult(queue[q]) = NoEvent THEN @
                             ELSE Append(@, PopResult(queue[q]))]
            /\ loc' = [loc EXCEPT ![w] =
                          [@ EXCEPT !.ctx = [@ EXCEPT !.event_this_cycle =
                                                @ \/ PopResult(queue[q]) # NoEvent]]]
            /\ UNCHANGED pc
    /\ UNCHANGED <<state, index, history, claim, nonceCtr, now, nextEid, pushed, appended, acked, pushedAt, mon, auxVars>>

\* emit: sender, loop_id and nonce are stamped on the event, then push_event.
GetNextNonce(n) == n + 1

Emit(w, t) ==
    /\ pc[w] = "handler"
    /\ nonceCtr[loc[w].lid] < MaxEmits
    /\ nonceCtr' = [nonceCtr EXCEPT ![loc[w].lid] = GetNextNonce(@)]
    /\ loc' = [loc EXCEPT ![w] =
                  [@ EXCEPT !.ev = [eid |-> 0, type |-> t, loop_id |-> loc[w].lid,
                                    sender |-> "server",
                                    nonce |-> GetNextNonce(nonceCtr[loc[w].lid])],
                            !.ctx = [@ EXCEPT !.event_this_cycle = TRUE],
                            !.pret = "emit"]]
    /\ pc' = [pc EXCEPT ![w] = "push_queue"]
    /\ UNCHANGED <<state, index, queue, history, claim, now, nextEid, ghostVars, mon, auxVars>>

\* The store raises inside emit's push_event; the handler catches the error.
EmitPushFails(w) ==
    /\ pc[w] = "push_queue"
    /\ loc[w].pret = "emit"
    /\ pc' = [pc EXCEPT ![w] = "handler"]
    /\ loc' = [loc EXCEPT ![w] = [@ EXCEPT !.ev = NoEvent, !.pret = "none"]]
    /\ UNCHANGED <<storeVars, now, nextEid, ghostVars, mon, auxVars>>

HandlerReturn(w) ==
    /\ pc[w] = "handler"
    /\ pc' = [pc EXCEPT ![w] = "finish"]
    /\ UNCHANGED <<storeVars, now, loc, nextEid, ghostVars, mon, auxVars>>

HandlerRaise(w) ==
    /\ pc[w] = "handler"
    /\ pc' = [pc EXCEPT ![w] = "finish_raised"]
    /\ UNCHANGED <<storeVars, now, loc, nextEid, ghostVars, mon, auxVars>>

\* ------------------------------------------------------------- wait_for
\* The validation with zero let through.
TimeoutValid_ZeroAllowed(to) == to >= 0

\* if timeout <= 0: raise ValueError
TimeoutValid(to) == to > 0

\* The comparison made strict: elapsed == timeout is not yet a timeout.
TimedOut_Strict(elapsed, to) == elapsed > to

\* if asyncio.get_event_loop().time() - start >= timeout: break
TimedOut(elapsed, to) == elapsed >= to

\* After the loop: raise EventTimeoutError if raise_on_timeout, else None.
TimeoutResult(raises) == IF raises THEN "EventTimeoutError" ELSE "null"

\* poll_timeout = min(EVENT_POLL_INTERVAL_S, remaining_timeout or EVENT_POLL_INTERVAL_S)
PollTimeout(remaining) ==
    IF remaining = 0 THEN EVENT_POLL_INTERVAL_S
    ELSE IF remaining < EVENT_POLL_INTERVAL_S THEN remaining
    ELSE EVENT_POLL_INTERVAL_S

\* The same without the loop condition `while not self.should_stop`.
Popping_IgnoresStop(ctx, elapsed, to) ==
    ~TimedOut(elapsed, to) /\ ~ctx.pause

\* Whether a pass of the loop gets as far as pop_event.
Popping(ctx, elapsed, to) ==
    ~ctx.stop /\ ~TimedOut(elapsed, to) /\ ~ctx.pause

\* How a pass of the loop ends, `ev` being what pop_event returned:
\* "wait" stands for the wait for a notification, anything else ends the call.
WaitPass(ctx, elapsed, to, raises, ev) ==
    IF ctx.stop THEN TimeoutResult(raises)
    ELSE IF TimedOut(elapsed, to) THEN TimeoutResult(raises)
    ELSE IF ctx.pause THEN "LoopPausedError"
    ELSE IF ctx.stop THEN "LoopStoppedError"
    ELSE IF ev # NoEvent THEN "event"
    ELSE IF to - elapsed <= 0 THEN TimeoutResult(raises)
    ELSE "wait"

\* wait_for(event, timeout, raise_on_timeout) up to the loop: start is taken,
\* the subscription is made, the timeout is validated.  The ValueError is
\* raised before the try block is entered.
WaitEnter(w, t, to, r) ==
    /\ pc[w] = "handler"
    /\ loc[w].subs < MaxSubs
    /\ pc' = [pc EXCEPT ![w] = IF TimeoutValid(to) THEN "wf_loop" ELSE "waited"]
    /\ loc' = [loc EXCEPT ![w] =
                  [@ EXCEPT !.wt = t, !.timeout = to, !.raises = r, !.start = now,
                            !.subs = @ + 1,
                            !.wres = IF TimeoutValid(to) THEN "none" ELSE "ValueError"]]
    /\ UNCHANGED <<storeVars, now, nextEid, ghostVars, mon, auxVars>>

\* One pass of the loop: the checks, the pop, the remaining time.  A pass that
\* ends the call leaves the try block through its finally, which unsubscribes
\* and closes the subscription.
WaitLoop(w) ==
    /\ pc[w] = "wf_loop"
    /\ LET L == loc[w]
           q == <<L.lid, L.wt, "client">>
           elapsed == now - L.start
           pops == Popping(L.ctx, elapsed, L.timeout)
           ev == IF pops THEN PopResult(queue[q]) ELSE NoEvent
           out == WaitPass(L.ctx, elapsed, L.timeout, L.raises, ev)
       IN /\ queue' = [queue EXCEPT ![q] = IF pops THEN PopRest(@) ELSE @]
          /\ popped' = [popped EXCEPT ![q] = IF ev = NoEvent THEN @ ELSE Append(@, ev)]
          /\ pc' = [pc EXCEPT ![w] = IF out = "wait" THEN "wf_wait" ELSE "waited"]
          /\ loc' = [loc EXCEPT ![w] =
                        [L EXCEPT !.wres = IF out = "wait" THEN "none" ELSE out,
                                  !.got = ev,
                                  !.subs = IF out = "wait" THEN @ ELSE @ - 1,
                                  !.wake = IF out = "wait"
                                           THEN now + PollTimeout(L.timeout - elapsed) ELSE 0,
                                  !.ctx = [@ EXCEPT !.event_this_cycle = @ \/ ev # NoEvent]]]
    /\ UNCHANGED <<state, index, history, claim, nonceCtr, now, nextEid, pushed, appended, acked, pushedAt, mon, auxVars>>

\* wait_for_event_notification returns because poll_timeout is over.
WaitPoll(w) ==
    /\ pc[w] = "wf_wait"
    /\ now >= loc[w].wake
    /\ pc' = [pc EXCEPT ![w] = "wf_loop"]
    /\ loc' = [loc EXCEPT ![w] = [@ EXCEPT !.wake = 0]]
    /\ UNCHANGED <<storeVars, now, nextEid, ghostVars, mon, auxVars>>

\* wait_for_event_notification returns early: a notification, or a false wakeup.
WaitNotified(w) ==
    /\ pc[w] = "wf_wait"
    /\ now < loc[w].wake
    /\ pc' = [pc EXCEPT ![w] = "wf_loop"]
    /\ UNCHANGED <<storeVars, now, loc, nextEid, ghostVars, mon, auxVars>>

\* context.stop() / context.pause() called while wait_for is suspended.
StopRequested(w) ==
    /\ pc[w] = "wf_wait"
    /\ ~loc[w].ctx.stop
    /\ loc' = [loc EXCEPT ![w] = [@ EXCEPT !.ctx = [@ EXCEPT !.stop = TRUE]]]
    /\ UNCHANGED <<storeVars, now, pc, nextEid, ghostVars, mon, auxVars>>

PauseRequested(w) ==
    /\ pc[w] = "wf_wait"
    /\ ~loc[w].ctx.pause
    /\ loc' = [loc EXCEPT ![w] = [@ EXCEPT !.ctx = [@ EXCEPT !.pause = TRUE]]]
    /\ UNCHANGED <<storeVars, now, pc, nextEid, ghostVars, mon, auxVars>>

\* The handler has the result of wait_for and carries on.
WaitReturn(w) ==
    /\ pc[w] = "waited"
    /\ pc' = [pc EXCEPT ![w] = "handler"]
    /\ loc' = [loc EXCEPT ![w] =
                  [@ EXCEPT !.wt = NoType, !.timeout = 0, !.raises = FALSE, !.start = 0,
                            !.wake = 0, !.wres = "none", !.got = NoEvent]]
    /\ UNCHANGED <<storeVars, now, nextEid, ghostVars, mon, auxVars>>

\* ------------------------------------------------- context set / get / delete
\* hasattr(self, key)
HasAttr(ctx, k) == ctx.attrs[k] # Missing

\* getattr(self, key, default)
GetAttr(ctx, k, d) == IF HasAttr(ctx, k) THEN ctx.attrs[k] ELSE d

\* setattr(self, key, value)
SetAttr(ctx, k, v) == [ctx EXCEPT !.attrs[k] = v]

\* delattr(self, key): AttributeError when the object has no such attribute.
DelAttr(ctx, k) == [ctx EXCEPT !.attrs[k] = Missing]

DelAttrResult(ctx, k) == IF HasAttr(ctx, k) THEN "ok" ELSE "AttributeError"

\* get_context_value: GET of the key; the unpickled value, None without a key.
GetContextValue(l, k) == IF context[l][k].set THEN Loads(context[l][k]) ELSE None

\* A default that is never kept on the object.
CachesDefault_Never(d) == FALSE

\* get(): a default is assigned to the attribute unless it is None.
CachesDefault(d) == d # None

\* get() once get_context_value has returned `value`: the context it leaves.
GetResolved(ctx, k, value, d) ==
    IF value # None THEN SetAttr(ctx, k, value)
    ELSE IF CachesDefault(d) THEN SetAttr(ctx, k, d)
    ELSE ctx

\* get() once get_context_value has returned `value`: what it returns.
GetResult(ctx, k, value, d) ==
    IF value = None /\ d = None THEN None
    ELSE GetAttr(GetResolved(ctx, k, value, d), k, d)

\* set(key, value, local): with local the attribute alone is assigned.
CtxSet(w, k, v, local) ==
    /\ pc[w] = "handler"
    /\ pc' = [pc EXCEPT ![w] = IF local THEN "kv_done" ELSE "kv_set"]
    /\ loc' = [loc EXCEPT ![w] =
                  [@ EXCEPT !.kop = [name |-> "set", key |-> k, value |-> v, local |-> local],
                            !.kres = IF local THEN "ok" ELSE "none",
                            !.ctx = IF local THEN SetAttr(@, k, v) ELSE @]]
    /\ UNCHANGED <<storeVars, now, nextEid, ghostVars, mon, auxVars>>

\* set_context_value: SET of the pickled value; then setattr.
CtxSetStore(w) ==
    /\ pc[w] = "kv_set"
    /\ context' = [context EXCEPT ![loc[w].lid][loc[w].kop.key] = Dumps(loc[w].kop.value)]
    /\ pc' = [pc EXCEPT ![w] = "kv_done"]
    /\ loc' = [loc EXCEPT ![w] =
                  [@ EXCEPT !.kres = "ok",
                            !.ctx = SetAttr(@, loc[w].kop.key, loc[w].kop.value)]]
    /\ UNCHANGED <<storeVars, now, nextEid, ghostVars, mon, http, lost, stt>>

\* get(key, default, local): a cached attribute, or any key with local, is
\* answered from the object; otherwise the store is read.
CtxGet(w, k, d, local) ==
    /\ pc[w] = "handler"
    /\ pc' = [pc EXCEPT ![w] = IF HasAttr(loc[w].ctx, k) \/ local THEN "kv_done" ELSE "kv_get"]
    /\ loc' = [loc EXCEPT ![w] =
                  [@ EXCEPT !.kop = [name |-> "get", key |-> k, value |-> d, local |-> local],
                            !.kres = IF HasAttr(loc[w].ctx, k) \/ local
                                     THEN GetAttr(loc[w].ctx, k, d) ELSE "none"]]
    /\ UNCHANGED <<storeVars, now, nextEid, ghostVars, mon, auxVars>>

\* get_context_value has returned.
CtxGetStore(w) ==
    /\ pc[w] = "kv_get"
    /\ LET k == loc[w].kop.key
           d == loc[w].kop.value
           value == GetContextValue(loc[w].lid, k)
       IN loc' = [loc EXCEPT ![w] =
                     [@ EXCEPT !.kres = GetResult(loc[w].ctx, k, value, d),
                               !.ctx = GetResolved(@, k, value, d)]]
    /\ pc' = [pc EXCEPT ![w] = "kv_done"]
    /\ UNCHANGED <<storeVars, now, nextEid, ghostVars, mon, auxVars>>

\* delete(key, local): with local the attribute alone is deleted.
CtxDelete(w, k, local) ==
    /\ pc[w] = "handler"
    /\ pc' = [pc EXCEPT ![w] = IF local THEN "kv_done" ELSE "kv_del"]
    /\ loc' = [loc EXCEPT ![w] =
                  [@ EXCEPT !.kop = [name |-> "delete", key |-> k, value |-> None, local |-> local],
                            !.kres = IF local THEN DelAttrResult(loc[w].ctx, k) ELSE "none",
                            !.ctx = IF local THEN DelAttr(@, k) ELSE @]]
    /\ UNCHANGED <<storeVars, now, nextEid, ghostVars, mon, auxVars>>

\* delete_context_value: DEL of the key; then delattr.
CtxDeleteStore(w) ==
    /\ pc[w] = "kv_del"
    /\ context' = [context EXCEPT ![loc[w].lid][loc[w].kop.key] = NoValue]
    /\ pc' = [pc EXCEPT ![w] = "kv_done"]
    /\ loc' = [loc EXCEPT ![w] =
                  [@ EXCEPT !.kres = DelAttrResult(loc[w].ctx, loc[w].kop.key),
                            !.ctx = DelAttr(@, loc[w].kop.key)]]
    /\ UNCHANGED <<storeVars, now, nextEid, ghostVars, mon, http, lost, stt>>

\* The handler has the outcome of the call and carries on.
CtxReturn(w) ==
    /\ pc[w] = "kv_done"
    /\ pc' = [pc EXCEPT ![w] = "handler"]
    /\ loc' = [loc EXCEPT ![w] = [@ EXCEPT !.kop = NoOp, !.kres = "none"]]
    /\ UNCHANGED <<storeVars, now, nextEid, ghostVars, mon, auxVars>>

\* ----------------------------------------------------------- process death
\* The process running an invocation is killed: its coroutine and every local
\* are gone, the event pop_event had handed to wait_for with them; the store
\* is as it was, the lock key included, which Redis keeps until its TTL.
Crash(w) ==
    /\ pc[w] \in {"handler", "wf_loop", "wf_wait", "waited"}
    /\ pc' = [pc EXCEPT ![w] = "idle"]
    /\ loc' = [loc EXCEPT ![w] = IdleLocals]
    /\ lost' = IF loc[w].got # NoEvent THEN lost \cup {loc[w].got} ELSE lost
    /\ UNCHANGED <<storeVars, now, nextEid, ghostVars, mon, context, http, stt>>

\* ------------------------------------------------------------- GET routes
\* A segment of a route's path: a literal, or a {parameter} that matches any
\* one segment.
Lit(name) == [param |-> FALSE, name |-> name]

Param(name) == [param |-> TRUE, name |-> name]

\* The GET routes of the app in the order FastLoop.__init__ registers them.
GetRoutes ==
    << [endpoint |-> "events_sse_endpoint",
        path |-> <<Lit("events"), Param("loop_id"), Param("event_type")>>],
       [endpoint |-> "events_history_endpoint",
        path |-> <<Lit("events"), Param("loop_id"), Lit("history")>>] >>

\* A route matches a request path segment by segment.
RouteMatches(route, path) ==
    /\ Len(route.path) = Len(path)
    /\ \A i \in 1..Len(path) : route.path[i].param \/ route.path[i].name = path[i]

\* The router hands the request to the first route that matches.
FirstMatch(routes, path) ==
    LET hits == {i \in 1..Len(routes) : RouteMatches(routes[i], path)}
    IN IF hits = {} THEN "404"
       ELSE routes[CHOOSE i \in hits : \A j \in hits : i <= j].endpoint

\* A GET request arrives.
GetArrives(path) ==
    /\ http = NoHttp
    /\ http' = [path |-> path, endpoint |-> "none"]
    /\ UNCHANGED <<storeVars, now, pc, loc, nextEid, ghostVars, mon, context, lost, stt>>

\* The router picks the endpoint.
GetRouted ==
    /\ http # NoHttp
    /\ http.endpoint = "none"
    /\ http' = [http EXCEPT !.endpoint = FirstMatch(GetRoutes, http.path)]
    /\ UNCHANGED <<storeVars, now, pc, loc, nextEid, ghostVars, mon, context, lost, stt>>

\* The response is sent.
GetDone ==
    /\ http.endpoint # "none"
    /\ http' = NoHttp
    /\ UNCHANGED <<storeVars, now, pc, loc, nextEid, ghostVars, mon, context, lost, stt>>

\* ------------------------------------------------------ LoopManager.start
\* The status the manager records when the invocation ends.
FinalStatus(ctx, raised) ==
    IF raised \/ ctx.stop THEN "STOPPED"
    ELSE IF ctx.pause THEN "PAUSED"
    ELSE "IDLE"

Finish(w) ==
    /\ pc[w] \in {"finish", "finish_raised"}
    /\ state' = [state EXCEPT ![loc[w].lid] =
                    [@ EXCEPT !.status = FinalStatus(loc[w].ctx, pc[w] = "finish_raised")]]
    /\ pc' = [pc EXCEPT ![w] = "release"]
    /\ loc' = [loc EXCEPT ![w] = [IdleLocals EXCEPT !.lid = loc[w].lid]]
    /\ UNCHANGED <<index, queue, history, claim, nonceCtr, now, nextEid, ghostVars, mon, auxVars>>

\* The worker takes the next request.
Reset(w) ==
    /\ pc[w] = "done"
    /\ pc' = [pc EXCEPT ![w] = "idle"]
    /\ loc' = [loc EXCEPT ![w] = IdleLocals]
    /\ UNCHANGED <<storeVars, now, nextEid, ghostVars, mon, auxVars>>

\* ------------------------------------------------------------ LoopMonitor
\* if loop.last_event_at + loop.idle_timeout < int(datetime.now().timestamp())
IdleCondition(rec, t) == rec.last_event_at + rec.idle_timeout < t

\* get_all_loops: SMEMBERS of the index.
MonSmembers ==
    /\ mon.pc = "sleep"
    /\ mon' = [mon EXCEPT !.pc = "get", !.todo = index, !.loops = {}]
    /\ UNCHANGED <<storeVars, now, pc, loc, nextEid, ghostVars, auxVars>>

\* get_all_loops: GET of one indexed loop; an id without a record is removed
\* from the index, a record of another status than RUNNING is skipped.
MonGet ==
    /\ mon.pc = "get"
    /\ \E l \in mon.todo :
        /\ index' = IF Exists(state[l]) THEN index ELSE index \ {l}
        /\ mon' = [mon EXCEPT !.todo = @ \ {l},
                              !.loops = IF Exists(state[l]) /\ state[l].status = "RUNNING"
                                        THEN @ \cup {state[l]} ELSE @]
    /\ UNCHANGED <<state, queue, history, claim, nonceCtr, now, pc, loc, nextEid, ghostVars, auxVars>>

\* The for loop of run() over the loops returned: the idle condition is
\* evaluated and its branch does nothing; then the monitor sleeps.
MonSweep ==
    /\ mon.pc = "get"
    /\ mon.todo = {}
    /\ mon' = [mon EXCEPT !.pc = "sleep", !.loops = {}, !.at = now,
                          !.idle = {r.loop_id : r \in {x \in mon.loops : IdleCondition(x, now)}}]
    /\ UNCHANGED <<storeVars, now, pc, loc, nextEid, ghostVars, auxVars>>

\* An exception other than CancelledError is raised inside the sweep: it is
\* logged and the monitor sleeps for one interval.
MonSweepFails ==
    /\ mon.pc = "get"
    /\ mon' = [mon EXCEPT !.pc = "error_sleep", !.todo = {}, !.loops = {}, !.at = now]
    /\ UNCHANGED <<storeVars, now, pc, loc, nextEid, ghostVars, auxVars>>

\* The loop condition taken as always true.
LoopContinues_IgnoresStop(stop) == TRUE

\* while not self._stop_event.is_set()
LoopContinues(stop) == ~stop

\* asyncio.sleep(WATCHDOG_INTERVAL_S) is over: the loop condition is
\* evaluated and the next sweep starts with SMEMBERS, or run() returns.
MonResume ==
    /\ mon.pc = "error_sleep"
    /\ now >= mon.at + WATCHDOG_INTERVAL_S
    /\ mon' = IF LoopContinues(mon.stop)
              THEN [mon EXCEPT !.pc = "get", !.todo = index]
              ELSE [mon EXCEPT !.pc = "exited"]
    /\ UNCHANGED <<storeVars, now, pc, loc, nextEid, ghostVars, auxVars>>

\* asyncio.wait_for(self._stop_event.wait(), timeout=WATCHDOG_INTERVAL_S)
\* times out: continue, and the next sweep starts.
MonTimeout ==
    /\ LoopContinues(mon.stop)
    /\ now >= mon.at + WATCHDOG_INTERVAL_S
    /\ MonSmembers

\* The same wait returns because the event is set: break.
MonExit ==
    /\ mon.pc = "sleep"
    /\ mon.stop
    /\ mon' = [mon EXCEPT !.pc = "exited"]
    /\ UNCHANGED <<storeVars, now, pc, loc, nextEid, ghostVars, auxVars>>

\* LoopMonitor.stop()
MonStop ==
    /\ mon.pc # "exited"
    /\ ~mon.stop
    /\ mon' = [mon EXCEPT !.stop = TRUE]
    /\ UNCHANGED <<storeVars, now, pc, loc, nextEid, ghostVars, auxVars>>

\* The task is cancelled (lifespan shutdown): CancelledError is raised at the
\* await the task is suspended in, and run() ends.
MonCancel ==
    /\ mon.pc # "exited"
    /\ mon' = [mon EXCEPT !.pc = "exited", !.todo = {}, !.loops = {}, !.cancelled = TRUE]
    /\ UNCHANGED <<storeVars, now, pc, loc, nextEid, ghostVars, auxVars>>

\* ------------------------------------------------------------------ clock
\* lock.acquire retries every 0.1 s: a blocked acquire has made its next try,
\* and has given up at stop_trying_at, before another second passes.
AcquirePending(w) ==
    /\ pc[w] = "acquire"
    /\ (~Held(loc[w].lid) \/ now >= loc[w].deadline)

\* Redis drops a lock key once its TTL is over.
Expire(t) ==
    [l \in LoopIds |-> IF Held(l) /\ claim[l].expires <= t THEN NoClaim ELSE claim[l]]

\* A second passes.
Tick ==
    /\ now < MaxTime
    /\ \A w \in Workers : ~AcquirePending(w)
    /\ now' = now + 1
    /\ claim' = Expire(now + 1)
    /\ UNCHANGED <<state, index, queue, history, nonceCtr, pc, loc, nextEid, ghostVars, mon, auxVars>>

\* The moments at which a lock key expires or a blocked lock.acquire gives up.
Deadlines ==
    {claim[l].expires : l \in {x \in LoopIds : Held(x)}}
        \cup {loc[w].deadline : w \in {x \in Workers : pc[x] = "acquire"}}

\* Time passes up to the next such moment while every worker waits: for a
\* request, for the lock, or inside the handler (user code of any duration).
\* No Redis command is in flight that long.
TickToDeadline ==
    /\ \A w \in Workers : ~AcquirePending(w)
    /\ \A w \in Workers : pc[w] \in {"idle", "done", "acquire", "handler"}
    /\ \E t \in Deadlines :
        /\ t > now
        /\ \A d \in Deadlines : d > now => t <= d
        /\ now' = t
        /\ claim' = Expire(t)
    /\ UNCHANGED <<state, index, queue, history, nonceCtr, pc, loc, nextEid, ghostVars, mon, auxVars>>

\* ------------------------------------------------------------------ Next
\* The dispatcher and the store under concurrent requests.
Next ==
    \/ \E w \in Workers, r \in Requests : Post(w, r)
    \/ \E w \in Workers : GocGet(w)
    \/ \E w \in Workers : GocSet(w)
    \/ \E w \in Workers : GocSadd(w)
    \/ \E w \in Workers : PushQueue(w)
    \/ \E w \in Workers : PushHistory(w)
    \/ \E w \in Workers : PushUpdate(w)
    \/ \E w \in Workers : Acquire(w)
    \/ \E w \in Workers : ClaimGet(w)
    \/ \E w \in Workers : ClaimSet(w)
    \/ \E w \in Workers : HandlerStop(w)
    \/ \E w \in Workers : HandlerPause(w)
    \/ \E w \in Workers, t \in RegisteredTypes : WaitFor(w, t)
    \/ \E w \in Workers : HandlerReturn(w)
    \/ \E w \in Workers : HandlerRaise(w)
    \/ \E w \in Workers : Finish(w)
    \/ \E w \in Workers : Release(w)
    \/ \E w \in Workers : Reset(w)
    \/ Tick

Spec == Init /\ [][Next]_vars

\* ---------------------------------------------- a first request accepted
\* The store once the first start request, made at time 0 without a loop_id,
\* has been through get_or_create_loop and push_event.
FirstLoop == 1

FirstEvent ==
    [eid |-> 1, type |-> StartEventKey, loop_id |-> FirstLoop, sender |-> "client", nonce |-> 0]

FirstQueue == <<FirstLoop, StartEventKey, "client">>

InitAccepted ==
    /\ state = [l \in LoopIds |->
                   IF l = FirstLoop
                   THEN NewLoopState(FirstLoop, LoopName, ROUTE_IDLE_TIMEOUT_S, 0)
                   ELSE NoLoop]
    /\ index = {FirstLoop}
    /\ queue = [q \in Queues |-> IF q = FirstQueue THEN <<FirstEvent>> ELSE <<>>]
    /\ history = [l \in LoopIds |-> IF l = FirstLoop THEN <<FirstEvent>> ELSE <<>>]
    /\ nonceCtr = [l \in LoopIds |-> 0]
    /\ now = 0
    /\ nextEid = 2
    /\ pushed = [q \in Queues |-> IF q = FirstQueue THEN <<FirstEvent>> ELSE <<>>]
    /\ popped = [q \in Queues |-> <<>>]
    /\ appended = [l \in LoopIds |-> IF l = FirstLoop THEN <<FirstEvent>> ELSE <<>>]
    /\ acked = {FirstEvent}
    /\ pushedAt = [q \in Queues |-> IF q = FirstQueue THEN <<0>> ELSE <<>>]
    /\ mon = MonitorIdle
    /\ context = [l \in LoopIds |-> [k \in Keys |-> NoValue]]
    /\ http = NoHttp
    /\ lost = {}
    /\ stt = NewSttManager

\* ------------------------------------------------ the claim over long times
\* The first request is about to take the claim; time may run up to the lock's
\* deadlines while further requests for the loop arrive.
InitClaim ==
    /\ InitAccepted
    /\ claim = [l \in LoopIds |-> NoClaim]
    /\ pc = [w \in Workers |-> IF w = 1 THEN "acquire" ELSE "idle"]
    /\ loc = [w \in Workers |->
                 IF w = 1
                 THEN [IdleLocals EXCEPT !.lid = FirstLoop, !.ev = FirstEvent,
                                         !.deadline = LOCK_BLOCKING_TIMEOUT_S]
                 ELSE IdleLocals]

ClaimRequests == {r \in Requests : Validate(r) = "ok" /\ r.loop_id # NoId}

NextClaim ==
    \/ \E w \in Workers, r \in ClaimRequests : Post(w, r)
    \/ \E w \in Workers : GocGet(w)
    \/ \E w \in Workers : PushQueue(w)
    \/ \E w \in Workers : PushHistory(w)
    \/ \E w \in Workers : PushUpdate(w)
    \/ \E w \in Workers : Acquire(w)
    \/ \E w \in Workers : ClaimGet(w)
    \/ \E w \in Workers : ClaimSet(w)
    \/ \E w \in Workers : ClaimGetFails(w)
    \/ \E w \in Workers : ClaimSetFails(w)
    \/ \E w \in Workers : HandlerStop(w)
    \/ \E w \in Workers : HandlerReturn(w)
    \/ \E w \in Workers : HandlerRaise(w)
    \/ \E w \in Workers : Finish(w)
    \/ \E w \in Workers : Release(w)
    \/ \E w \in Workers : Reset(w)
    \/ Tick
    \/ TickToDeadline

SpecClaim == InitClaim /\ [][NextClaim]_vars

\* The same, with handlers that call wait_for.
NextStart ==
    \/ NextClaim
    \/ \E w \in Workers, t \in RegisteredTypes : WaitFor(w, t)

SpecStart == InitClaim /\ [][NextStart]_vars

\* ------------------------------------------------------- a handler emitting
\* The first request holds the claim and its handler runs.
InitEmit ==
    /\ InitAccepted
    /\ claim = [l \in LoopIds |->
                   IF l = FirstLoop THEN [token |-> 1, expires |-> LOCK_TIMEOUT_S]
                   ELSE NoClaim]
    /\ pc = [w \in Workers |-> IF w = 1 THEN "handler" ELSE "idle"]
    /\ loc = [w \in Workers |->
                 IF w = 1 THEN [IdleLocals EXCEPT !.lid = FirstLoop] ELSE IdleLocals]

NextEmit ==
    \/ \E w \in Workers, t \in RegisteredTypes : Emit(w, t)
    \/ \E w \in Workers : EmitPushFails(w)
    \/ \E w \in Workers : PushQueue(w)
    \/ \E w \in Workers : PushHistory(w)
    \/ \E w \in Workers : GocGet(w)
    \/ \E w \in Workers : PushUpdate(w)
    \/ \E w \in Workers, t \in RegisteredTypes : WaitFor(w, t)
    \/ \E w \in Workers : HandlerStop(w)
    \/ \E w \in Workers : HandlerReturn(w)
    \/ \E w \in Workers : Finish(w)
    \/ \E w \in Workers : Release(w)
    \/ Tick

SpecEmit == InitEmit /\ [][NextEmit]_vars

\* ------------------------------------------------- emit from several tasks
\* Every worker is a task that emits on the first loop: the tasks of one
\* handler run together (asyncio.gather), or contexts in different processes.
InitTasks ==
    /\ InitAccepted
    /\ claim = [l \in LoopIds |->
                   IF l = FirstLoop THEN [token |-> 1, expires |-> LOCK_TIMEOUT_S]
                   ELSE NoClaim]
    /\ pc = [w \in Workers |-> "handler"]
    /\ loc = [w \in Workers |-> [IdleLocals EXCEPT !.lid = FirstLoop]]

NextTasks ==
    \/ \E w \in Workers, t \in RegisteredTypes : Emit(w, t)
    \/ \E w \in Workers : PushQueue(w)
    \/ \E w \in Workers : PushHistory(w)
    \/ \E w \in Workers : GocGet(w)
    \/ \E w \in Workers : PushUpdate(w)

SpecTasks == InitTasks /\ [][NextTasks]_vars

\* ------------------------------------------------- a handler in wait_for
\* The timeouts a handler passes to wait_for: zero and negative ones included.
WaitTimeouts == -1..MaxTimeout

\* The event loop runs a coroutine that is ready before a second passes.
WaitPending(w) ==
    IF pc[w] = "wf_wait" THEN now >= loc[w].wake ELSE pc[w] = "wf_loop"

\* A second passes while the handlers wait.
TickWait ==
    /\ now < MaxWaitTime
    /\ \A w \in Workers : ~AcquirePending(w) /\ ~WaitPending(w)
    /\ now' = now + 1
    /\ claim' = Expire(now + 1)
    /\ UNCHANGED <<state, index, queue, history, nonceCtr, pc, loc, nextEid, ghostVars, mon, auxVars>>

\* The first request holds the claim and its handler runs; further requests
\* for the loop arrive while it waits.
InitWait == InitEmit

NextWait ==
    \/ \E w \in Workers, t \in RegisteredTypes, to \in WaitTimeouts, r \in BOOLEAN :
          WaitEnter(w, t, to, r)
    \/ \E w \in Workers : WaitLoop(w)
    \/ \E w \in Workers : WaitPoll(w)
    \/ \E w \in Workers : WaitNotified(w)
    \/ \E w \in Workers : StopRequested(w)
    \/ \E w \in Workers : PauseRequested(w)
    \/ \E w \in Workers : WaitReturn(w)
    \/ \E w \in Workers : HandlerStop(w)
    \/ \E w \in Workers : HandlerPause(w)
    \/ \E w \in Workers : HandlerReturn(w)
    \/ \E w \in Workers : Finish(w)
    \/ \E w \in Workers : Release(w)
    \/ \E w \in Workers : Reset(w)
    \/ \E w \in Workers, r \in ClaimRequests : Post(w, r)
    \/ \E w \in Workers : GocGet(w)
    \/ \E w \in Workers : PushQueue(w)
    \/ \E w \in Workers : PushHistory(w)
    \/ \E w \in Workers : PushUpdate(w)
    \/ \E w \in Workers : Acquire(w)
    \/ \E w \in Workers : ClaimGet(w)
    \/ \E w \in Workers : ClaimSet(w)
    \/ TickWait

SpecWait == InitWait /\ [][NextWait]_vars

\* ------------------------------------------------------ the monitor's sweep
\* The idle_timeout values a loop is created with.
IdleTimeouts == 1..MaxIdleTimeout

\* A second passes; a sweep in progress is over before it does.
TickSweep ==
    /\ now < MaxSweepTime
    /\ \A w \in Workers : ~AcquirePending(w)
    /\ mon.pc = "sleep"
    /\ now' = now + 1
    /\ claim' = Expire(now + 1)
    /\ UNCHANGED <<state, index, queue, history, nonceCtr, pc, loc, nextEid, ghostVars, mon, auxVars>>

\* The store after get_or_create_loop(loop_name, idle_timeout) at time 0: a
\* RUNNING loop without events and without a claim; the monitor sleeps.
InitMonitor ==
    /\ \E idle \in IdleTimeouts :
          state = [l \in LoopIds |->
                      IF l = FirstLoop THEN NewLoopState(FirstLoop, LoopName, idle, 0)
                      ELSE NoLoop]
    /\ index = {FirstLoop}
    /\ queue = [q \in Queues |-> <<>>]
    /\ history = [l \in LoopIds |-> <<>>]
    /\ claim = [l \in LoopIds |-> NoClaim]
    /\ nonceCtr = [l \in LoopIds |-> 0]
    /\ now = 0
    /\ pc = [w \in Workers |-> "idle"]
    /\ loc = [w \in Workers |-> IdleLocals]
    /\ nextEid = 1
    /\ pushed = [q \in Queues |-> <<>>]
    /\ popped = [q \in Queues |-> <<>>]
    /\ appended = [l \in LoopIds |-> <<>>]
    /\ acked = {}
    /\ pushedAt = [q \in Queues |-> <<>>]
    /\ mon = MonitorIdle
    /\ context = [l \in LoopIds |-> [k \in Keys |-> NoValue]]
    /\ http = NoHttp
    /\ lost = {}
    /\ stt = NewSttManager

NextMonitor ==
    \/ MonSmembers
    \/ MonGet
    \/ MonSweep
    \/ \E w \in Workers, r \in ClaimRequests : Post(w, r)
    \/ \E w \in Workers : GocGet(w)
    \/ \E w \in Workers : PushQueue(w)
    \/ \E w \in Workers : PushHistory(w)
    \/ \E w \in Workers : PushUpdate(w)
    \/ \E w \in Workers : Acquire(w)
    \/ \E w \in Workers : ClaimGet(w)
    \/ \E w \in Workers : ClaimSet(w)
    \/ \E w \in Workers : HandlerReturn(w)
    \/ \E w \in Workers : Finish(w)
    \/ \E w \in Workers : Release(w)
    \/ \E w \in Workers : Reset(w)
    \/ TickSweep

SpecMonitor == InitMonitor /\ [][NextMonitor]_vars

\* ------------------------------------------------ a handler using its context
\* The values and defaults a handler passes to set and get.
Settable == Values \cup {None}

\* The first request holds the claim and its handler runs; a further request
\* for the loop starts a later invocation with a context of its own.
InitContext == InitEmit

NextContext ==
    \/ \E w \in Workers, k \in Keys, v \in Settable, local \in BOOLEAN : CtxSet(w, k, v, local)
    \/ \E w \in Workers : CtxSetStore(w)
    \/ \E w \in Workers, k \in Keys, d \in Settable, local \in BOOLEAN : CtxGet(w, k, d, local)
    \/ \E w \in Workers : CtxGetStore(w)
    \/ \E w \in Workers, k \in Keys, local \in BOOLEAN : CtxDelete(w, k, local)
    \/ \E w \in Workers : CtxDeleteStore(w)
    \/ \E w \in Workers : CtxReturn(w)
    \/ \E w \in Workers : HandlerReturn(w)
    \/ \E w \in Workers : Finish(w)
    \/ \E w \in Workers : Release(w)
    \/ \E w \in Workers : Reset(w)
    \/ \E w \in Workers, r \in ClaimRequests : Post(w, r)
    \/ \E w \in Workers : GocGet(w)
    \/ \E w \in Workers : PushQueue(w)
    \/ \E w \in Workers : PushHistory(w)
    \/ \E w \in Workers : PushUpdate(w)
    \/ \E w \in Workers : Acquire(w)
    \/ \E w \in Workers : ClaimGet(w)
    \/ \E w \in Workers : ClaimSet(w)

SpecContext == InitContext /\ [][NextContext]_vars

\* ------------------------------------------- a process killed in wait_for
\* The timeouts a handler passes to a wait_for that is let in.
ValidTimeouts == 1..MaxTimeout

\* The first request holds the claim and its handler runs; its process may be
\* killed, and a further request for the loop arrives before or after the
\* lock key has expired.
InitCrash == InitEmit

NextCrash ==
    \/ \E w \in Workers, t \in RegisteredTypes, to \in ValidTimeouts, r \in BOOLEAN :
          WaitEnter(w, t, to, r)
    \/ \E w \in Workers : WaitLoop(w)
    \/ \E w \in Workers : WaitNotified(w)
    \/ \E w \in Workers : WaitReturn(w)
    \/ \E w \in Workers : Crash(w)
    \/ \E w \in Workers : HandlerReturn(w)
    \/ \E w \in Workers : Finish(w)
    \/ \E w \in Workers : Release(w)
    \/ \E w \in Workers : Reset(w)
    \/ \E w \in Workers, r \in ClaimRequests : Post(w, r)
    \/ \E w \in Workers : GocGet(w)
    \/ \E w \in Workers : PushQueue(w)
    \/ \E w \in Workers : PushHistory(w)
    \/ \E w \in Workers : PushUpdate(w)
    \/ \E w \in Workers : Acquire(w)
    \/ \E w \in Workers : ClaimGet(w)
    \/ \E w \in Workers : ClaimSet(w)
    \/ TickToDeadline

SpecCrash == InitCrash /\ [][NextCrash]_vars

\* ------------------------------------------------------ GET requests routed
\* The path segments a client sends, and the paths made of them.
Segments == {"events", "history", "pr_opened", "changes_approved", "1"}

Paths == UNION {[1..n -> Segments] : n \in 1..MaxPathLen}

NextRoute ==
    \/ \E path \in Paths : GetArrives(path)
    \/ GetRouted
    \/ GetDone

SpecRoute == Init /\ [][NextRoute]_vars

\* ------------------------------------------ a new invocation after a crash
\* A handler persists context values and its process may be killed while it
\* holds the claim; requests for the loop arrive before and after the lock
\* key has expired, and the handlers they start read the context.

NextRecover ==
    \/ \E w \in Workers, k \in Keys, v \in Values : CtxSet(w, k, v, FALSE)
    \/ \E w \in Workers : CtxSetStore(w)
    \/ \E w \in Workers, k \in Keys : CtxGet(w, k, None, FALSE)
    \/ \E w \in Workers : CtxGetStore(w)
    \/ \E w \in Workers : CtxReturn(w)
    \/ \E w \in Workers : Crash(w)
    \/ \E w \in Workers : HandlerReturn(w)
    \/ \E w \in Workers : Finish(w)
    \/ \E w \in Workers : Release(w)
    \/ \E w \in Workers : Reset(w)
    \/ \E w \in Workers, r \in ClaimRequests : Post(w, r)
    \/ \E w \in Workers : GocGet(w)
    \/ \E w \in Workers : PushQueue(w)
    \/ \E w \in Workers : PushHistory(w)
    \/ \E w \in Workers : PushUpdate(w)
    \/ \E w \in Workers : Acquire(w)
    \/ \E w \in Workers : ClaimGet(w)
    \/ \E w \in Workers : ClaimSet(w)
    \/ TickToDeadline

SpecRecover == InitEmit /\ [][NextRecover]_vars

\* ------------------------------------------------- speech-to-text buffer
\* start(): the connection is up, is_running is set and process_audio is
\* created as a task.
SttStart ==
    /\ stt.pc = "off"
    /\ stt' = [stt EXCEPT !.is_running = TRUE, !.pc = "read"]
    /\ UNCHANGED <<storeVars, now, pc, loc, nextEid, ghostVars, mon, context, http, lost>>

\* send_audio(audio): the chunk is appended to the buffer under the lock when
\* the connection answers is_connected; otherwise the call returns (before
\* start() there is no connection: the AttributeError is caught and printed).
SendAudio(connected) ==
    /\ stt.next <= MaxChunks
    /\ stt' = [stt EXCEPT
                  !.next = @ + 1,
                  !.buffer = IF connected /\ stt.pc # "off" THEN Append(@, stt.next) ELSE @,
                  !.accepted = IF connected /\ stt.pc # "off" THEN Append(@, stt.next) ELSE @]
    /\ UNCHANGED <<storeVars, now, pc, loc, nextEid, ghostVars, mon, context, http, lost>>

\* process_audio: `audio = self.buffer` under the lock; an empty buffer goes
\* to the sleep.
ProcessAudioRead ==
    /\ stt.pc = "read"
    /\ stt.is_running
    /\ stt' = [stt EXCEPT !.audio = stt.buffer,
                          !.pc = IF Len(stt.buffer) > 0 THEN "send" ELSE "sleep"]
    /\ UNCHANGED <<storeVars, now, pc, loc, nextEid, ghostVars, mon, context, http, lost>>

\* await self.dg_connection.send(audio): the connection takes the bytes.
ProcessAudioSend ==
    /\ stt.pc = "send"
    /\ stt' = [stt EXCEPT !.sent = @ \o stt.audio, !.pc = "reset"]
    /\ UNCHANGED <<storeVars, now, pc, loc, nextEid, ghostVars, mon, context, http, lost>>

\* The send has returned to process_audio: self.buffer = b"".
ProcessAudioReset ==
    /\ stt.pc = "reset"
    /\ stt' = [stt EXCEPT !.buffer = <<>>, !.pc = "sleep"]
    /\ UNCHANGED <<storeVars, now, pc, loc, nextEid, ghostVars, mon, context, http, lost>>

\* await asyncio.sleep(0.5) has ended.
ProcessAudioSleep ==
    /\ stt.pc = "sleep"
    /\ stt' = [stt EXCEPT !.audio = <<>>, !.pc = "read"]
    /\ UNCHANGED <<storeVars, now, pc, loc, nextEid, ghostVars, mon, context, http, lost>>

\* A conversation: _process_audio_input hands each audio event to send_audio
\* while process_audio drains the buffer.
NextStt ==
    \/ SttStart
    \/ \E connected \in BOOLEAN : SendAudio(connected)
    \/ ProcessAudioRead
    \/ ProcessAudioSend
    \/ ProcessAudioReset
    \/ ProcessAudioSleep

SpecStt == Init /\ [][NextStt]_vars

\* ------------------------------------------------- consumers of one queue
\* The tasks of one handler (asyncio.gather) are about to call wait_for while
\* the client queues of the loop hold the two events accepted so far, the
\* second of type t.
InitConsumers ==
    \E t \in RegisteredTypes :
        LET q2 == <<FirstLoop, t, "client">>
            SecondEvent(u) ==
                [eid |-> 2, type |-> u, loop_id |-> FirstLoop, sender |-> "client",
                 nonce |-> 0]
            first(q) == IF q = FirstQueue THEN <<FirstEvent>> ELSE <<>>
            second(q) == IF q = q2 THEN <<SecondEvent(t)>> ELSE <<>>
        IN
        /\ state = [l \in LoopIds |->
                       IF l = FirstLoop
                       THEN NewLoopState(FirstLoop, LoopName, ROUTE_IDLE_TIMEOUT_S, 0)
                       ELSE NoLoop]
        /\ index = {FirstLoop}
        /\ queue = [q \in Queues |-> second(q) \o first(q)]
        /\ history = [l \in LoopIds |->
                         IF l = FirstLoop THEN <<SecondEvent(t), FirstEvent>> ELSE <<>>]
        /\ claim = [l \in LoopIds |->
                       IF l = FirstLoop THEN [token |-> 1, expires |-> LOCK_TIMEOUT_S]
                       ELSE NoClaim]
        /\ nonceCtr = [l \in LoopIds |-> 0]
        /\ now = 0
        /\ pc = [w \in Workers |-> "handler"]
        /\ loc = [w \in Workers |-> [IdleLocals EXCEPT !.lid = FirstLoop]]
        /\ nextEid = 3
        /\ pushed = [q \in Queues |-> first(q) \o second(q)]
        /\ popped = [q \in Queues |-> <<>>]
        /\ appended = [l \in LoopIds |->
                          IF l = FirstLoop THEN <<FirstEvent, SecondEvent(t)>> ELSE <<>>]
        /\ acked = {FirstEvent, SecondEvent(t)}
        /\ pushedAt = [q \in Queues |-> [i \in 1..Len(first(q) \o second(q)) |-> 0]]
        /\ mon = MonitorIdle
        /\ context = [l \in LoopIds |-> [k \in Keys |-> NoValue]]
        /\ http = NoHttp
        /\ lost = {}
        /\ stt = NewSttManager

NextConsumers ==
    \/ \E w \in Workers, t \in RegisteredTypes, to \in ValidTimeouts, r \in BOOLEAN :
          WaitEnter(w, t, to, r)
    \/ \E w \in Workers : WaitLoop(w)
    \/ \E w \in Workers : WaitPoll(w)
    \/ \E w \in Workers : WaitNotified(w)
    \/ \E w \in Workers : WaitReturn(w)
    \/ TickWait

SpecConsumers == InitConsumers /\ [][NextConsumers]_vars

\* -------------------------------------------- the monitor task's lifetime
\* The monitor has nothing to run before its sleep is over.
MonSleeping ==
    \/ mon.pc = "exited"
    \/ mon.pc = "error_sleep" /\ now < mon.at + WATCHDOG_INTERVAL_S
    \/ mon.pc = "sleep" /\ ~mon.stop /\ now < mon.at + WATCHDOG_INTERVAL_S

\* Time passes up to the end of the monitor's sleep.
TickWatchdog ==
    /\ MonSleeping
    /\ mon.pc # "exited"
    /\ mon.at + WATCHDOG_INTERVAL_S <= MaxIntervals * WATCHDOG_INTERVAL_S
    /\ now' = mon.at + WATCHDOG_INTERVAL_S
    /\ claim' = Expire(mon.at + WATCHDOG_INTERVAL_S)
    /\ UNCHANGED <<state, index, queue, history, nonceCtr, pc, loc, nextEid, ghostVars, mon, auxVars>>

\* A handler runs under its claim while the monitor, which made its first
\* sweep at time 0, sweeps, fails, is stopped or is cancelled.

NextWatchdog ==
    \/ MonTimeout
    \/ MonGet
    \/ MonSweep
    \/ MonSweepFails
    \/ MonResume
    \/ MonExit
    \/ MonStop
    \/ MonCancel
    \/ \E w \in Workers, t \in RegisteredTypes : WaitFor(w, t)
    \/ \E w \in Workers : HandlerStop(w)
    \/ \E w \in Workers : HandlerReturn(w)
    \/ \E w \in Workers : Finish(w)
    \/ \E w \in Workers : Release(w)
    \/ TickWatchdog

SpecWatchdog == InitEmit /\ [][NextWatchdog]_vars

\* ------------------------------------------- bodies with sender and nonce
\* The dispatcher under requests whose bodies set `sender` and `nonce`.
NextIngress ==
    \/ \E w \in Workers, r \in BodyRequests : Post(w, r)
    \/ \E w \in Workers : GocGet(w)
    \/ \E w \in Workers : GocSet(w)
    \/ \E w \in Workers : GocSadd(w)
    \/ \E w \in Workers : PushQueue(w)
    \/ \E w \in Workers : PushHistory(w)
    \/ \E w \in Workers : PushUpdate(w)
    \/ \E w \in Workers : Acquire(w)
    \/ \E w \in Workers : ClaimGet(w)
    \/ \E w \in Workers : ClaimSet(w)
    \/ \E w \in Workers : HandlerReturn(w)
    \/ \E w \in Workers : Finish(w)
    \/ \E w \in Workers : Release(w)
    \/ \E w \in Workers : Reset(w)

SpecIngress == Init /\ [][NextIngress]_vars

\* ================================================================ claims
Reverse(seq) == [i \in 1..Len(seq) |-> seq[Len(seq) + 1 - i]]

InSeq(e, seq) == \E i \in 1..Len(seq) : seq[i] = e

PushPcs == {"push_queue", "push_history", "goc_get", "goc_set", "goc_sadd", "push_update"}

\* The worker runs the handler (its emit calls included).
Executing(w, l) ==
    /\ loc[w].lid = l
    /\ (pc[w] = "handler" \/ (pc[w] \in PushPcs /\ loc[w].pret = "emit"))

\* The worker is inside the scope of with_claim(l).
InScope(w, l) ==
    /\ loc[w].lid = l
    /\ (Executing(w, l)
          \/ pc[w] \in {"claim_get", "claim_set", "finish", "finish_raised", "release"})

\* C1: for every loop_id at most one with_claim attempt is inside the claimed
\* scope at a time, and an attempt that fails with LoopClaimError has not
\* entered the scope.
C1_OneInScope ==
    \A l \in LoopIds :
        /\ Cardinality({w \in Workers : InScope(w, l)}) <= 1
        /\ \A w \in Workers :
              loc[w].resp = "LoopClaimError" => pc[w] = "done" /\ ~InScope(w, l)

\* C2: for every loop_id no two handler invocations started through the
\* dispatcher execute at the same time, however long an execution lasts.
C2_OneInvocation ==
    \A l \in LoopIds : Cardinality({w \in Workers : Executing(w, l)}) <= 1

\* C3: on every (loop_id, type, sender) queue pop_event returns the events in
\* the order push_event appended them, the queue holds exactly the events not
\* yet popped, and pop_event returns null exactly when nothing pushed is left.
C3_QueueFifo ==
    \A q \in Queues :
        /\ popped[q] \o Reverse(queue[q]) = pushed[q]
        /\ (PopResult(queue[q]) = NoEvent) <=> (Len(popped[q]) = Len(pushed[q]))

C3_Witness ==
    \E q \in Queues : Len(popped[q]) >= 2

\* The nonces of the server events of a loop's history, oldest first.
IsServer(e) == e.sender = "server"

ServerNonces(l) ==
    LET evs == SelectSeq(Reverse(get_event_history(l)), IsServer)
    IN [i \in 1..Len(evs) |-> evs[i].nonce]

\* C4: the nonces of the server events visible in a loop's history are
\* consecutive (n, n+1, n+2, ...): none repeated, none skipped, also when a
\* push_event after a nonce assignment fails.
C4_NoncesConsecutive ==
    \A l \in LoopIds :
        \A i \in 1..(Len(ServerNonces(l)) - 1) :
            ServerNonces(l)[i + 1] = ServerNonces(l)[i] + 1

\* C5: an event whose push_event has returned is in get_event_history from
\* then on, whatever has been popped since.
C5_AckedInHistory ==
    \A e \in acked : InSeq(e, get_event_history(e.loop_id))

C5_Witness ==
    \E q \in Queues :
        /\ popped[q] # <<>>
        /\ popped[q][1] \in acked
        /\ ~InSeq(popped[q][1], queue[q])

\* C6: get_event_history returns the events in the order push_event appended
\* them, oldest first.
C6_HistoryAppendOrder ==
    \A l \in LoopIds : get_event_history(l) = appended[l]

\* C7: a loop record whose status is STOPPED keeps that status in every later
\* state.
C7_StoppedForever ==
    [][\A l \in LoopIds : state[l].status = "STOPPED" => state'[l].status = "STOPPED"]_vars

\* C8: a POST whose loop_id resolves to a STOPPED loop is answered 400 and
\* changes nothing in the store: neither its first step nor the step that
\* reads the record writes anything, and the request ends there.
C8_StoppedRejected ==
    [][\A w \in Workers :
          /\ (pc[w] = "idle" /\ pc'[w] # "idle") => UNCHANGED storeVars
          /\ (/\ pc[w] = "goc_get"
              /\ pc'[w] # "goc_get"
              /\ loc[w].ret = "route"
              /\ loc[w].lid # NoId
              /\ state[loc[w].lid].status = "STOPPED")
             => /\ pc'[w] = "done"
                /\ loc'[w].resp = "400:stopped"
                /\ UNCHANGED storeVars]_vars

C8_Witness ==
    \E w \in Workers : pc[w] = "done" /\ loc[w].resp = "400:stopped"

\* The requests the dispatcher must refuse.
Invalid(r) ==
    \/ r.type = NoType
    \/ r.type \notin RegisteredTypes
    \/ ~r.valid
    \/ (r.loop_id = NoId /\ r.type # StartEventKey)

Resp400 ==
    {"400:type_required", "400:unknown_type", "400:invalid_data", "400:expected_start"}

\* C9: a POST with a missing or unregistered type, a payload that fails the
\* schema, or no loop_id and a type other than the start event is answered
\* 400 in the step that receives it, and that step changes nothing in the store.
C9_InvalidRejected ==
    [][\A w \in Workers :
          (pc[w] = "idle" /\ pc'[w] # "idle" /\ Invalid(loc'[w].req))
             => /\ pc'[w] = "done"
                /\ loc'[w].resp \in Resp400
                /\ UNCHANGED storeVars]_vars

C9_Witness ==
    \E w \in Workers :
        /\ pc[w] = "done"
        /\ loc[w].req.type = "changes_approved"
        /\ loc[w].req.valid
        /\ loc[w].req.loop_id = NoId
        /\ loc[w].resp = "400:expected_start"

\* C10: the dispatcher creates a loop record only for an event of the
\* declared start type.
C10_CreatedOnStartOnly ==
    \A w \in Workers :
        (pc[w] \in {"goc_set", "goc_sadd"} /\ loc[w].ret = "route")
            => loc[w].ev.type = StartEventKey

\* C11: get_or_create_loop called with a loop_id that has a record returns that
\* record without creating one (created=false) and changes nothing in the
\* store: the step that reads the record writes no key, does not go on to the
\* set / sadd of a creation, keeps the loop_id, and hands push_event the
\* stored record itself.
C11_ExistingReturned ==
    [][\A w \in Workers :
          (/\ pc[w] = "goc_get"
           /\ pc'[w] # "goc_get"
           /\ loc[w].lid # NoId
           /\ state[loc[w].lid].status # "ABSENT")
             => /\ UNCHANGED storeVars
                /\ pc'[w] \notin {"goc_set", "goc_sadd"}
                /\ loc[w].ret = "push" =>
                      /\ pc'[w] = "push_update"
                      /\ loc'[w].lid = loc[w].lid
                      /\ loc'[w].loop =
                            [state[loc[w].lid] EXCEPT !.last_event_at = now]]_vars

C11_Witness ==
    \E w \in Workers :
        /\ pc[w] = "push_update"
        /\ loc[w].loop = [state[loc[w].lid] EXCEPT !.last_event_at = now]
        /\ loc[w].lid \in index

\* C12: whenever get_or_create_loop finds no record, with or without a loop_id
\* passed, the record it persists is under a freshly generated loop_id, has
\* status RUNNING and last_event_at = now, and once the id is in the index the
\* record is stored.
C12_CreatedFresh ==
    /\ \A w \in Workers :
          pc[w] \in {"goc_set", "goc_sadd"}
             => /\ loc[w].fresh
                /\ loc[w].loop.loop_id = loc[w].lid
                /\ loc[w].loop.status = "RUNNING"
                /\ loc[w].loop.last_event_at <= now
    /\ \A l \in index : state[l].status # "ABSENT"

\* The queue a worker's wait_for pops.
WaitQueue(w) == <<loc[w].lid, loc[w].wt, "client">>

\* wait_for has ended by running out of time.
EndedByTimeout(w) ==
    pc[w] = "waited" /\ loc[w].wres \in {"null", "EventTimeoutError"}

\* C13: with neither stop nor pause requested, wait_for(T, timeout) does not
\* end by timeout while the queue of T holds an event that was pushed before
\* the timeout was used up, whether or not a notification woke it; and when it
\* returns an event, that is the oldest one of the queue and event_this_cycle
\* is set.
C13_NoMissedEvent ==
    \A w \in Workers :
        /\ (EndedByTimeout(w) /\ ~loc[w].ctx.stop /\ ~loc[w].ctx.pause)
              => LET q == WaitQueue(w)
                     i == Len(popped[q]) + 1
                 IN ~(i <= Len(pushed[q])
                        /\ pushedAt[q][i] < loc[w].start + loc[w].timeout)
        /\ (pc[w] = "waited" /\ loc[w].wres = "event")
              => /\ loc[w].got = popped[WaitQueue(w)][Len(popped[WaitQueue(w)])]
                 /\ loc[w].ctx.event_this_cycle

\* C14: a pass of wait_for's loop that finds no event of the type on the queue
\* changes no queue and no history; made at elapsed >= timeout (equality
\* included) it ends the call, with EventTimeoutError when raise_on_timeout is
\* true and with null otherwise; made earlier with no flag set it suspends
\* the call until the timeout at the latest, so the call ends once
\* elapsed >= timeout.
C14_TimesOut ==
    [][\A w \in Workers :
          (/\ pc[w] = "wf_loop"
           /\ pc'[w] # "wf_loop"
           /\ queue[WaitQueue(w)] = <<>>)
             => /\ UNCHANGED <<queue, history>>
                /\ IF now - loc[w].start >= loc[w].timeout
                   THEN /\ pc'[w] = "waited"
                        /\ loc'[w].wres = IF loc[w].raises THEN "EventTimeoutError"
                                          ELSE "null"
                   ELSE (~loc[w].ctx.stop /\ ~loc[w].ctx.pause)
                           => /\ pc'[w] = "wf_wait"
                              /\ loc'[w].wake > now
                              /\ loc'[w].wake <= loc[w].start + loc[w].timeout]_vars

C14_Witness ==
    \E w \in Workers :
        /\ pc[w] = "waited"
        /\ loc[w].wres = "EventTimeoutError"
        /\ ~loc[w].ctx.stop
        /\ now - loc[w].start = loc[w].timeout
        /\ pushed[WaitQueue(w)] = <<>>

\* C15: wait_for called with timeout <= 0 ends at once with ValueError and pops
\* nothing, whatever is queued: the step that enters it changes no queue, and
\* no pass of the loop is made.
C15_BadTimeoutRejected ==
    [][\A w \in Workers :
          (/\ pc[w] = "handler"
           /\ pc'[w] \in {"wf_loop", "wf_wait", "waited"}
           /\ loc'[w].timeout <= 0)
             => /\ pc'[w] = "waited"
                /\ loc'[w].wres = "ValueError"
                /\ loc'[w].got = NoEvent
                /\ UNCHANGED <<storeVars, popped>>]_vars

C15_Witness ==
    \E w \in Workers :
        /\ pc[w] = "waited"
        /\ loc[w].wres = "ValueError"
        /\ loc[w].timeout = 0
        /\ queue[WaitQueue(w)] # <<>>

\* C16: a wait_for (with a valid timeout) that ends with the stop flag set,
\* whether the flag was set before the call or while it was suspended, ends
\* with LoopStoppedError: not with null and not with EventTimeoutError.
C16_StopRaises ==
    \A w \in Workers :
        (pc[w] = "waited" /\ loc[w].ctx.stop /\ loc[w].timeout > 0)
            => loc[w].wres = "LoopStoppedError"

\* C17: a pass of wait_for's loop made with the pause flag set and the stop
\* flag not set ends the call with LoopPausedError and pops nothing.
C17_PauseRaises ==
    [][\A w \in Workers :
          (/\ pc[w] = "wf_loop"
           /\ pc'[w] # "wf_loop"
           /\ loc[w].ctx.pause
           /\ ~loc[w].ctx.stop)
             => /\ pc'[w] = "waited"
                /\ loc'[w].wres = "LoopPausedError"
                /\ UNCHANGED <<queue, popped>>]_vars

\* C18: when a handler invocation ends, the step that records the outcome
\* sets the loop's status to STOPPED if an exception escaped or should_stop is
\* set, to PAUSED if should_pause is set, to IDLE otherwise, and is taken
\* while the invocation still holds the claim, before the release.
C18_FinalStatus ==
    [][\A w \in Workers :
          (pc[w] \in {"finish", "finish_raised"} /\ pc'[w] # pc[w])
             => /\ pc'[w] = "release"
                /\ state'[loc[w].lid].status =
                      (IF pc[w] = "finish_raised" THEN "STOPPED"
                       ELSE IF loc[w].ctx.stop THEN "STOPPED"
                       ELSE IF loc[w].ctx.pause THEN "PAUSED"
                       ELSE "IDLE")
                /\ claim[loc[w].lid].token = w
                /\ claim'[loc[w].lid].token = w]_vars

\* C19: once a sweep of the monitor is over, a loop it found RUNNING with
\* last_event_at + idle_timeout in the past, whose claim is free and which no
\* request or invocation is working on, has the status IDLE.
C19_IdleSwept ==
    \A l \in LoopIds :
        (/\ mon.pc = "sleep"
         /\ l \in mon.idle
         /\ state[l].last_event_at + state[l].idle_timeout < mon.at
         /\ claim[l].token = NoToken
         /\ \A w \in Workers : pc[w] = "idle")
            => state[l].status = "IDLE"

\* C20: the loops a sweep classifies as idle are exactly the RUNNING loops it
\* read with now - last_event_at >= idle_timeout: equality is idle, anything
\* less is not.
C20_IdleAtEquality ==
    [][(mon.pc = "get" /\ mon'.pc = "sleep")
          => mon'.idle =
               {r.loop_id : r \in {x \in mon.loops :
                                      now - x.last_event_at >= x.idle_timeout}}]_vars

\* The context is as LoopContext.__init__ left it: nothing set, got or deleted.
FreshContext(ctx) == ctx.attrs = NewContext.attrs

\* C21: when set(k, v) with local=false completes, the same context holds v
\* for k (its get(k) returns v from the cache) and the store holds v pickled;
\* and the first get(k) on a fresh context of the loop, the store holding a
\* value for k, returns that value: the one most recently persisted.
C21_SetThenGet ==
    [][\A w \in Workers :
          /\ (pc[w] = "kv_set" /\ pc'[w] = "kv_done")
                => /\ HasAttr(loc'[w].ctx, loc[w].kop.key)
                   /\ GetAttr(loc'[w].ctx, loc[w].kop.key, None) = loc[w].kop.value
                   /\ context'[loc[w].lid][loc[w].kop.key].set
                   /\ Loads(context'[loc[w].lid][loc[w].kop.key]) = loc[w].kop.value
          /\ (/\ pc[w] \in {"handler", "kv_get"}
              /\ pc'[w] = "kv_done"
              /\ loc'[w].kop.name = "get"
              /\ loc'[w].kop.value = None
              /\ ~loc'[w].kop.local
              /\ FreshContext(loc[w].ctx)
              /\ context[loc[w].lid][loc'[w].kop.key].set)
                => loc'[w].kres = Loads(context[loc[w].lid][loc'[w].kop.key])]_vars

\* What get(k, d) with local=false returns on context ctx of loop l as the
\* store stands.
GetNow(ctx, l, k, d) ==
    IF HasAttr(ctx, k) THEN GetAttr(ctx, k, d)
    ELSE GetResult(ctx, k, GetContextValue(l, k), d)

\* C22: a delete(k) with local=false that has ended has ended without an
\* error, whether k was an attribute of this context or only a key of the
\* store, and has left k absent from the object and from the store, so that
\* get(k, default) returns default on this context and on a fresh one.
C22_DeleteCompletes ==
    \A w \in Workers :
        (pc[w] = "kv_done" /\ loc[w].kop.name = "delete" /\ ~loc[w].kop.local)
            => /\ loc[w].kres = "ok"
               /\ ~HasAttr(loc[w].ctx, loc[w].kop.key)
               /\ ~context[loc[w].lid][loc[w].kop.key].set
               /\ \A d \in Settable :
                     GetNow(loc[w].ctx, loc[w].lid, loc[w].kop.key, d) = d

\* C23: no step of get writes the context store.  A get of a key the object
\* has as an attribute ends at once with the attribute's value, without a
\* read of the store; a get with local=false of any other key reads the
\* store and returns the stored value, or the default when the store has
\* none; a default other than None is then kept, so that a later
\* get(k, other_default) on the context returns it.  With local=true get ends
\* without a read and set ends without a write of the store.
C23_GetFrame ==
    [][\A w \in Workers :
          /\ (pc[w] = "handler" /\ pc'[w] \in {"kv_get", "kv_done"} /\ loc'[w].kop.name = "get")
                => /\ UNCHANGED <<storeVars, context>>
                   /\ IF HasAttr(loc[w].ctx, loc'[w].kop.key)
                      THEN /\ pc'[w] = "kv_done"
                           /\ loc'[w].kres = loc[w].ctx.attrs[loc'[w].kop.key]
                      ELSE IF loc'[w].kop.local
                      THEN /\ pc'[w] = "kv_done"
                           /\ loc'[w].kres = loc'[w].kop.value
                      ELSE pc'[w] = "kv_get"
          /\ (pc[w] = "kv_get" /\ pc'[w] # "kv_get")
                => LET l == loc[w].lid
                       k == loc[w].kop.key
                       d == loc[w].kop.value
                   IN /\ UNCHANGED <<storeVars, context>>
                      /\ pc'[w] = "kv_done"
                      /\ (context[l][k].set /\ Loads(context[l][k]) # None)
                            => loc'[w].kres = Loads(context[l][k])
                      /\ ~context[l][k].set
                            => /\ loc'[w].kres = d
                               /\ d # None
                                     => \A other \in Settable :
                                           GetNow(loc'[w].ctx, l, k, other) = d
          /\ (pc[w] = "handler" /\ pc'[w] # "handler" /\ loc'[w].kop.name = "set"
                 /\ loc'[w].kop.local)
                => /\ UNCHANGED <<storeVars, context>>
                   /\ pc'[w] = "kv_done"]_vars

C23_Witness ==
    \E w \in Workers :
        /\ pc[w] = "kv_done"
        /\ loc[w].kop = [name |-> "get", key |-> "draft", value |-> "v2", local |-> FALSE]
        /\ loc[w].kres = "v1"
        /\ context[loc[w].lid]["draft"] = NoValue
        /\ context[loc[w].lid]["initial_event"] = NoValue

\* How many times pop_event has returned event e.
Deliveries(e) ==
    LET q == QueueKey(e.loop_id, e)
    IN Cardinality({i \in 1..Len(popped[q]) : popped[q][i] = e})

\* C24: an event that pop_event had removed for a handler whose process was
\* killed before the handler had it is delivered again: no wait_for of a later
\* invocation returns a younger event of the same queue while the lost one
\* has been delivered only that once.
C24_Redelivered ==
    \A w \in Workers :
        (pc[w] = "waited" /\ loc[w].wres = "event")
            => \A e \in lost :
                  (QueueKey(e.loop_id, e) = WaitQueue(w) /\ e.eid < loc[w].got.eid)
                      => Deliveries(e) >= 2

\* C25: the scope of with_claim is left only through lock.release(), on the
\* normal return of the body, on an exception of the body and on an error of
\* the GET / SET at entry alike; the release deletes the key the holder owns
\* at once; so the lock key names a holder only while that holder is inside
\* the scope, and a new with_claim finds the key free without waiting for
\* the TTL.
C25_ReleasedOnExit ==
    [][\A w \in Workers, l \in LoopIds :
          /\ (InScope(w, l) /\ ~(InScope(w, l))')
                => /\ pc[w] = "release"
                   /\ claim[l].token = w => claim'[l] = NoClaim
                   /\ claim'[l].token # w
          /\ (claim[l].token = w)' => (InScope(w, l))']_vars

C25_Witness ==
    \E w \in Workers :
        /\ pc[w] = "done"
        /\ loc[w].resp = "RedisError"
        /\ \A l \in LoopIds : claim[l] = NoClaim
        /\ \A v \in Workers : pc[v] \in {"done", "idle"}

\* C26: a GET of /events/{loop_id}/history reaches the history endpoint, not
\* the SSE endpoint with event_type = "history".
C26_HistoryRouted ==
    (/\ http.endpoint # "none"
     /\ Len(http.path) = 3
     /\ http.path[1] = "events"
     /\ http.path[3] = "history")
        => http.endpoint = "events_history_endpoint"

\* The nonces of a list of events, oldest first, grow strictly.
Increasing(nonces) ==
    \A i, j \in 1..Len(nonces) : i < j => nonces[i] < nonces[j]

\* The nonces of the events on a server queue, oldest first.
QueueNonces(q) ==
    [i \in 1..Len(queue[q]) |-> Reverse(queue[q])[i].nonce]

\* C27: however emit calls on a loop interleave, the server events stand on
\* their queues and in the history in increasing nonce order: none is
\* appended after an event with a larger nonce.
C27_NonceOrder ==
    \A l \in LoopIds :
        /\ Increasing(ServerNonces(l))
        /\ \A t \in RegisteredTypes : Increasing(QueueNonces(<<l, t, "server">>))

\* C28: an update_loop step (every overwrite of a loop record but the creating
\* set of get_or_create_loop) is taken by a worker that holds the loop's
\* claim; the rewrite at the end of push_event is one of them, and it leaves
\* the status as the store has it.
C28_WritesUnderClaim ==
    [][\A w \in Workers :
          (/\ pc'[w] # pc[w]
           /\ pc[w] # "goc_set"
           /\ loc[w].lid # NoId
           /\ state[loc[w].lid].status # "ABSENT"
           /\ state'[loc[w].lid] # state[loc[w].lid])
             => /\ claim[loc[w].lid].token = w
                /\ pc[w] = "push_update"
                      => state'[loc[w].lid].status = state[loc[w].lid].status]_vars

\* C29: an event that pop_event has returned is in get_event_history, and
\* the loop's last_event_at is not older than the event's push.
C29_PushAtomic ==
    \A q \in Queues :
        \A i \in 1..Len(popped[q]) :
            /\ InSeq(popped[q][i], get_event_history(q[1]))
            /\ state[q[1]].last_event_at >= pushedAt[q][i]

\* C30: when start raises LoopClaimError for a request, push_event has put
\* the request's event on its queue, and the event has been popped by a
\* wait_for or the invocation that holds the claim has not left its handler.
C30_RejectedIsObserved ==
    [][\A w \in Workers :
          (pc[w] = "acquire" /\ pc'[w] = "done" /\ loc'[w].resp = "LoopClaimError")
             => LET q == QueueKey(loc[w].lid, loc[w].ev) IN
                /\ InSeq(loc[w].ev, pushed[q])
                /\ \/ InSeq(loc[w].ev, popped[q])
                   \/ \E v \in Workers :
                         /\ claim[loc[w].lid].token = v
                         /\ pc[v] \in {"claim_get", "claim_set", "handler"}]_vars

\* C31: an event the dispatcher has pushed is on the client queue of its type
\* for the resolved loop, with sender CLIENT and that loop's id, whatever the
\* body's sender and nonce; no request puts an event on a server queue.
C31_ClientQueueOnly ==
    \A q \in Queues :
        \A i \in 1..Len(pushed[q]) :
            /\ q[3] = "client"
            /\ pushed[q][i].sender = "client"
            /\ pushed[q][i].loop_id = q[1]
            /\ pushed[q][i].type = q[2]

C33_Unsubscribed ==
    \A w \in Workers :
        loc[w].subs > 0 => pc[w] \in {"wf_loop", "wf_wait"}

\* C34: once stop is requested on a context whose handler is suspended in
\* wait_for, the wait in progress ends no later than one poll interval after
\* the request and time does not pass beyond that end while the call is still
\* suspended; the pass of the loop that follows ends the call at once, pops
\* nothing and changes no queue.
C34_StopEndsWait ==
    [][\A w \in Workers :
          /\ (pc[w] = "wf_wait" /\ ~loc[w].ctx.stop /\ loc'[w].ctx.stop)
                => loc[w].wake <= now + EVENT_POLL_INTERVAL_S
          /\ (pc[w] = "wf_wait" /\ loc[w].ctx.stop /\ pc'[w] = "wf_wait")
                => now' <= loc[w].wake
          /\ (pc[w] = "wf_loop" /\ loc[w].ctx.stop)
                => /\ now' = now
                   /\ pc'[w] # pc[w] =>
                        /\ pc'[w] = "waited"
                        /\ loc'[w].got = NoEvent
                        /\ queue' = queue
                        /\ popped' = popped]_vars

\* Stop was requested while a wait_for was suspended and the wait has been
\* woken: the call is about to make its next pass, before its timeout is
\* over and with an event of its type on the client queue.
C34_Witness ==
    \E w \in Workers :
        /\ pc[w] = "wf_loop"
        /\ loc[w].wake > 0
        /\ loc[w].ctx.stop
        /\ now - loc[w].start < loc[w].timeout
        /\ queue[<<loc[w].lid, loc[w].wt, "client">>] # <<>>

\* A worker's process is killed in this step.
Crashes(w) ==
    pc[w] \in {"handler", "wf_loop", "wf_wait", "waited"} /\ pc'[w] = "idle"

\* The lock key of loop l is held by a process that does not run any more.
Orphaned(l) ==
    Held(l) /\ \A w \in Workers : claim[l].token = w => ~InScope(w, l)

\* C35: the death of a claim holder leaves the lock key, the loop record and
\* the context values in the store; the orphaned key is gone no later than 60
\* seconds after it was set, and its expiry changes neither record nor
\* values; an acquire made once the key is gone takes the claim; and a get of
\* the handler then started, the only one running for the loop, made for a
\* key the store has a value for, returns that value.
C35_RecoversAfterCrash ==
    [][/\ \A w \in Workers :
            Crashes(w) => claim' = claim /\ state' = state /\ context' = context
       /\ \A l \in LoopIds :
            Held(l) => now < claim[l].expires /\ claim[l].expires <= now + LOCK_TIMEOUT_S
       /\ \A l \in LoopIds :
            (Orphaned(l) /\ ~Held(l)') => state' = state /\ context' = context
       /\ \A w \in Workers :
            (pc[w] = "acquire" /\ ~Held(loc[w].lid) /\ pc'[w] # pc[w])
                => pc'[w] = "claim_get" /\ claim'[loc[w].lid].token = w
       /\ \A w \in Workers :
            (/\ pc[w] \in {"handler", "kv_get"}
             /\ pc'[w] = "kv_done"
             /\ loc'[w].kop.name = "get"
             /\ FreshContext(loc[w].ctx)
             /\ \A v \in Workers \ {w} : pc[v] \in {"idle", "done"}
             /\ context[loc[w].lid][loc'[w].kop.key].set)
                => loc'[w].kres = Loads(context[loc[w].lid][loc'[w].kop.key])]_vars

\* C36: once stop() has been called the monitor starts no further sweep and
\* run() returns at its next step outside a sweep, no time passing before
\* that except the rest of a sleep that follows a failed sweep, which never
\* lasts beyond one watchdog interval; run() ends only by stop() or by
\* cancellation and stays ended; a failed sweep is followed by a sleep of one
\* interval and then by the next sweep; and no step of the monitor changes a
\* worker's position or locals, a claim, a loop record or an event list.
C36_MonitorLifecycle ==
    [][/\ (mon.stop /\ mon.pc \in {"sleep", "get"}) => now' = now
       /\ mon.pc = "error_sleep" =>
             mon.at <= now /\ now' <= mon.at + WATCHDOG_INTERVAL_S
       /\ (mon.stop /\ mon.pc # "get") => mon'.pc # "get"
       /\ (mon.stop /\ mon.pc \in {"sleep", "error_sleep"} /\ mon' # mon)
             => mon'.pc = "exited"
       /\ mon.pc = "exited" => mon' = mon
       /\ (mon.pc # "exited" /\ mon'.pc = "exited") => mon.stop \/ mon'.cancelled
       /\ (mon.pc = "get" /\ mon'.pc \notin {"get", "sleep"} /\ ~mon'.cancelled)
             => mon'.pc = "error_sleep" /\ mon'.at = now
       /\ (mon.pc = "error_sleep" /\ mon'.pc = "get")
             => now = mon.at + WATCHDOG_INTERVAL_S
       /\ mon' # mon =>
             /\ pc' = pc /\ loc' = loc /\ claim' = claim /\ state' = state
             /\ queue' = queue /\ history' = history]_vars

\* run() has returned after stop(), which was called one interval after a
\* sweep made later than the first, while a handler is still running.
C36_Witness ==
    /\ mon.pc = "exited"
    /\ mon.stop
    /\ ~mon.cancelled
    /\ mon.at > 0
    /\ now = mon.at + WATCHDOG_INTERVAL_S
    /\ \E w \in Workers : pc[w] = "handler"

\* C37: get_or_create_loop writes its initial record only over an absent
\* record, and a caller returns created=true for a loop_id only while no
\* other caller is on its way to return created=true for the same id.
C37_CreatedOnce ==
    [][\A w \in Workers :
          /\ (pc[w] = "goc_set" /\ pc'[w] = "goc_sadd")
                => ~Exists(state[loc[w].lid])
          /\ (pc[w] = "goc_sadd" /\ pc'[w] # "goc_sadd")
                => \A v \in Workers \ {w} :
                      pc[v] \in {"goc_set", "goc_sadd"} => loc[v].lid # loc[w].lid]_vars

\* The events pop_event has returned, over all queues.
AllPopped ==
    {<<q, i>> \in Queues \X (1..MaxPosts + 1) : i <= Len(popped[q])}

\* C38: no event is returned by two pop_event calls, whichever consumers make
\* them: the returns logged over all queues are pairwise different, as are the
\* events two wait_for calls in progress have been handed; and an event
\* returned from a queue was pushed to that queue.
C38_PoppedOnce ==
    /\ \A a \in AllPopped : \A b \in AllPopped :
          a # b => popped[a[1]][a[2]] # popped[b[1]][b[2]]
    /\ \A a \in AllPopped : InSeq(popped[a[1]][a[2]], pushed[a[1]])
    /\ \A w \in Workers : \A v \in Workers \ {w} :
          loc[w].got # NoEvent => loc[w].got # loc[v].got
    /\ \A w \in Workers :
          loc[w].got # NoEvent => InSeq(loc[w].got, pushed[<<loc[w].lid, loc[w].wt, "client">>])

\* Two consumers called wait_for for the same type at the same time and each
\* has been handed an event.
C38_Witness ==
    \E w \in Workers : \E v \in Workers \ {w} :
        /\ pc[w] = "waited" /\ pc[v] = "waited"
        /\ loc[w].wt = loc[v].wt
        /\ loc[w].got # NoEvent /\ loc[v].got # NoEvent

\* The program counters of a set / get / delete call in progress.
CtxPcs == {"kv_set", "kv_get", "kv_del", "kv_done"}

\* C39: no step of context.set / get / delete changes a field __init__
\* assigned on the context (here initial_event, the field a handler's key can
\* name), the flags or the loop id; and a get(k, default) on a context no
\* set or get has touched, the store holding nothing for k, returns default.
C39_FieldsKept ==
    [][\A w \in Workers :
          /\ (pc[w] \in {"handler"} \cup CtxPcs /\ pc'[w] \in CtxPcs)
                => /\ loc'[w].ctx.attrs["initial_event"] = loc[w].ctx.attrs["initial_event"]
                   /\ loc'[w].ctx.stop = loc[w].ctx.stop
                   /\ loc'[w].ctx.pause = loc[w].ctx.pause
                   /\ loc'[w].ctx.event_this_cycle = loc[w].ctx.event_this_cycle
                   /\ loc'[w].lid = loc[w].lid
          /\ (/\ pc[w] \in {"handler", "kv_get"}
              /\ pc'[w] = "kv_done"
              /\ loc'[w].kop.name = "get"
              /\ FreshContext(loc[w].ctx)
              /\ ~context[loc[w].lid][loc'[w].kop.key].set)
                => loc'[w].kres = loc'[w].kop.value]_vars

\* C40: every chunk send_audio accepted has been taken by the connection or
\* is still in the buffer, and the connection has been sent the accepted
\* chunks in arrival order, each once and none left out.
C40_ForwardedOnce ==
    /\ \A i \in 1..Len(stt.accepted) :
          InSeq(stt.accepted[i], stt.sent) \/ InSeq(stt.accepted[i], stt.buffer)
    /\ Len(stt.sent) <= Len(stt.accepted)
    /\ \A i \in 1..Len(stt.sent) : stt.sent[i] = stt.accepted[i]

====
